---- MODULE Spec2Model ----
(***************************************************************************)
(* A model of libadt's packed bit array (src/src/bitwise_array.c and       *)
(* src/src/libadt/bitwise_array.h): an array of fixed-width unsigned        *)
(* elements packed, most significant bit first, into a byte buffer; of its  *)
(* growable vector (src/src/vector.c, src/src/libadt/vector.h); and of its  *)
(* length-tracked pointer (src/src/libadt/lptr.h).                          *)
(*                                                                          *)
(* TLC's integers are 32-bit signed, so a C `unsigned int` is kept as a     *)
(* pair <<hi, lo>> of 16-bit halves and every operation on it wraps at      *)
(* 2^32 as the C operation does.  An `unsigned char` is an integer in       *)
(* 0..255.                                                                  *)
(***************************************************************************)
EXTENDS Integers, Sequences, FiniteSets, TLC

VARIABLES
    array,        \* the caller's struct libadt_bitwise_array {length, width, bits}
    heap,         \* contents of the block malloc returned, byte offset -> byte
    heap_live,    \* TRUE from a successful malloc until free
    malloc_log,   \* the sizes requested from malloc, in order
    last,         \* the last call made: its arguments, result and loop trace
    nops,         \* number of get/set calls made so far
    loop,         \* a get or set call in progress, one loop iteration at a time
    vector,       \* the caller's struct libadt_vector {buffer, size, length, capacity}
    blocks,       \* the allocator's blocks: address -> [live, bytes]
    vlast,        \* the last vector call: arguments, vector and blocks before it
    scope,        \* a LIBADT_VECTOR_WITH statement: position and what has run
    lcall         \* the last lptr call: arguments and result

bitwise_vars == <<array, heap, heap_live, malloc_log, last, nops, loop>>
vector_vars == <<vector, blocks, vlast, scope>>
lptr_vars == <<lcall>>

vars == <<bitwise_vars, vector_vars, lptr_vars>>

(***************************************************************************)
(* Bounds of the model.                                                    *)
(***************************************************************************)
MaxLength == 3
MaxSeed == 1
MaxOps == 1
MaxIndex == 7
MaxCapacity == 2
MaxNumber == 2
MaxVecOps == 3
MaxRuns == 2
MaxLptrLength == 3
HeapBytes == 16
MemBytes == 6
MaxFrames == 5

(***************************************************************************)
(* Program constants.                                                      *)
(***************************************************************************)
CHAR_BIT == 8
UINT_BIT == 32

NULL == "NULL"
BLOCK == "block"

MAX(a, b) == IF a > b THEN a ELSE b

(***************************************************************************)
(* unsigned char and int arithmetic.                                       *)
(***************************************************************************)
\* (libadt_bitwise_array_bit)x for an int x: reduction modulo 256
UChar(x) == x % 256

\* ~x on an int
BitNot(x) == -x - 1

\* a & b on non-negative ints
RECURSIVE BitAnd(_, _)
BitAnd(a, b) ==
    IF a = 0 \/ b = 0 THEN 0
    ELSE (a % 2) * (b % 2) + 2 * BitAnd(a \div 2, b \div 2)

\* x << n and x >> n on a non-negative int x that stays far below 2^31
IntShl(x, n) == x * (2 ^ n)
IntShr(x, n) == x \div (2 ^ n)

(***************************************************************************)
(* unsigned int (32 bit) arithmetic on <<hi, lo>> pairs.                   *)
(***************************************************************************)
HALF == 65536

\* conversion of a non-negative int to unsigned
ToUnsigned(n) == <<(n \div HALF) % HALF, n % HALF>>

UShl1(u) == <<(2 * u[1] + (u[2] \div 32768)) % HALF, (2 * u[2]) % HALF>>
UShr1(u) == <<u[1] \div 2, (u[2] \div 2) + (u[1] % 2) * 32768>>

\* u << n, 0 <= n < 32
RECURSIVE UShl(_, _)
UShl(u, n) == IF n <= 0 THEN u ELSE UShl(UShl1(u), n - 1)

\* u >> n, 0 <= n < 32
RECURSIVE UShr(_, _)
UShr(u, n) == IF n <= 0 THEN u ELSE UShr(UShr1(u), n - 1)

\* u + v modulo 2^32
UAdd(u, v) ==
    LET lo == u[2] + v[2]
    IN  <<(u[1] + v[1] + (lo \div HALF)) % HALF, lo % HALF>>

\* (libadt_bitwise_array_bit)u for an unsigned u
UToUChar(u) == u[2] % 256

(***************************************************************************)
(* Memory: the block handed out by malloc.                                 *)
(***************************************************************************)
\* what an uninitialised block may hold: byte k of garbage pattern `seed`
\* (even seeds: bytes that differ from one another; seed 1: all 0xff)
Garbage(seed, k) == (165 + 90 * seed + 37 * k * (1 - (seed % 2))) % 256

\* *location, location being a byte offset from array.bits
Load(bits, location) == IF location \in DOMAIN bits THEN bits[location] ELSE 0

\* *location = byte
Store(bits, location, byte) ==
    IF location \in DOMAIN bits THEN [bits EXCEPT ![location] = byte] ELSE bits

\* lldiv(number_bits, CHAR_BIT): the quotient truncated towards zero and the
\* remainder that goes with it
to_bytes(number_bits) ==
    IF number_bits >= 0
    THEN [quot |-> number_bits \div CHAR_BIT, rem |-> number_bits % CHAR_BIT]
    ELSE [quot |-> -((-number_bits) \div CHAR_BIT),
          rem |-> -((-number_bits) % CHAR_BIT)]

(***************************************************************************)
(* libadt_bitwise_array_alloc, _valid, _free.                              *)
(***************************************************************************)
ZeroArray == [length |-> 0, width |-> 0, bits |-> NULL]

\* alloc_bytes as it would be without the extra byte
alloc_bytes_exact(length, width) == to_bytes(length * width).quot

\* alloc_bytes as it would be with the bit count rounded up to whole bytes
alloc_bytes_ceiling(length, width) == to_bytes(length * width + CHAR_BIT - 1).quot

\* const ssize_t bytes = division.quot + 1
alloc_bytes(length, width) == to_bytes(length * width).quot + 1

\* libadt_bitwise_array_alloc as it would be if only the length were checked
libadt_bitwise_array_alloc_length_only(length, width, pointer) ==
    IF length < 0
    THEN [array |-> ZeroArray, malloc |-> <<>>]
    ELSE [array |-> [length |-> length, width |-> width, bits |-> pointer],
          malloc |-> <<to_bytes(length * width).quot + 1>>]

\* The struct returned, with the sizes asked of malloc on the way (none for a
\* negative length or width); `pointer` is what malloc returns when called.
libadt_bitwise_array_alloc(length, width, pointer) ==
    IF length < 0 \/ width < 0
    THEN [array |-> ZeroArray, malloc |-> <<>>]
    ELSE [array |-> [length |-> length, width |-> width, bits |-> pointer],
          malloc |-> <<alloc_bytes(length, width)>>]

\* libadt_bitwise_array_valid as it would be if an empty array counted as
\* invalid
libadt_bitwise_array_valid_nonempty(a) == a.bits # NULL /\ a.length # 0

libadt_bitwise_array_valid(a) == a.bits # NULL

(***************************************************************************)
(* The per-byte arithmetic shared by get and set.                          *)
(***************************************************************************)
ones == UChar(BitNot(0))

\* right_bits_ignore as it would be if every byte were used up to its end
right_bits_ignore_none(start_from, bits_remaining) == 0

right_bits_ignore(start_from, bits_remaining) ==
    UChar(MAX(0, CHAR_BIT - start_from - bits_remaining))

mask_right(start_from) == UChar(IntShr(ones, start_from))

\* mask_left as it would be if no bit on the right were set aside
mask_left_all(ignore) == ones

mask_left(ignore) == UChar(IntShl(ones, ignore))

\* get: mask = mask_left & mask_right
get_mask(start_from, ignore) ==
    UChar(BitAnd(mask_left(ignore), mask_right(start_from)))

\* set_mask as it would be with mask_right forgotten: the bits of the byte in
\* front of the element are cleared too
set_mask_left_only(start_from, ignore) == UChar(BitNot(mask_left(ignore)))

\* set_mask as it would be if set cleared the whole byte
set_mask_none(start_from, ignore) == 0

\* set: mask = ~(mask_left & mask_right)
set_mask(start_from, ignore) ==
    UChar(BitNot(BitAnd(mask_left(ignore), mask_right(start_from))))

bits_read(start_from, ignore) == UChar(CHAR_BIT - start_from - ignore)

\* bits_write as it would be if the bits left for the next element were
\* counted as written
bits_write_to_end(start_from, ignore) == UChar(CHAR_BIT - start_from)

bits_write(start_from, ignore) == UChar(CHAR_BIT - start_from - ignore)

\* value_here as it would be without the shift that right-aligns the bits
value_here_unshifted(byte, mask, ignore) == UChar(BitAnd(byte, mask))

\* value_here = (*location & mask) >> right_bits_ignore
value_here(byte, mask, ignore) == UChar(IntShr(BitAnd(byte, mask), ignore))

\* accumulate as it would be if every byte made room for a whole byte
accumulate_whole_byte(result, nbits, here) ==
    UAdd(UShl(result, CHAR_BIT), ToUnsigned(here))

\* result = (result << bits_read) + value_here
accumulate(result, nbits, here) == UAdd(UShl(result, nbits), ToUnsigned(here))

\* set_byte as it would be if the value were not sliced for the current byte
set_byte_unsliced(byte, mask, value, bits_remaining, nbits, ignore) ==
    UToUChar(UAdd(ToUnsigned(BitAnd(byte, mask)), UShl(value, ignore)))

\* the byte stored by set:
\*   (*location & mask) + (value >> (bits_remaining - bits_write) << right_bits_ignore)
set_byte(byte, mask, value, bits_remaining, nbits, ignore) ==
    UToUChar(UAdd(ToUnsigned(BitAnd(byte, mask)),
                  UShl(UShr(value, bits_remaining - nbits), ignore)))

(***************************************************************************)
(* libadt_bitwise_array_get.  The loop state is                            *)
(*   location, bits_remaining, start_from, result                          *)
(* and `visited` records, per iteration, the byte visited, the loop state   *)
(* it was visited in and the number of bits taken from it.                  *)
(***************************************************************************)
get_iteration(bits, st) ==
    LET ignore == right_bits_ignore(st.start_from, st.bits_remaining)
        mask == get_mask(st.start_from, ignore)
        nbits == bits_read(st.start_from, ignore)
        here == value_here(Load(bits, st.location), mask, ignore)
    IN  [location |-> st.location + 1,
         bits_remaining |-> st.bits_remaining - nbits,
         start_from |-> 0,
         result |-> accumulate(st.result, nbits, here),
         visited |-> Append(st.visited,
                        [location |-> st.location,
                         start_from |-> st.start_from,
                         bits_remaining |-> st.bits_remaining,
                         bits |-> nbits])]

RECURSIVE get_loop(_, _)
get_loop(bits, st) ==
    IF st.bits_remaining > 0 THEN get_loop(bits, get_iteration(bits, st)) ELSE st

\* the final loop state of libadt_bitwise_array_get(array, index), the array
\* being {length, width, bits}
get_run(bits, width, index) ==
    LET byte_index == to_bytes(index * width)
    IN  get_loop(bits, [location |-> byte_index.quot,
                        bits_remaining |-> width,
                        start_from |-> byte_index.rem,
                        result |-> ToUnsigned(0),
                        visited |-> <<>>])

libadt_bitwise_array_get(bits, width, index) == get_run(bits, width, index).result

(***************************************************************************)
(* libadt_bitwise_array_set.  The loop state is                            *)
(*   bits (the storage), location, bits_remaining, start_from.             *)
(***************************************************************************)
set_iteration(value, st) ==
    LET ignore == right_bits_ignore(st.start_from, st.bits_remaining)
        mask == set_mask(st.start_from, ignore)
        nbits == bits_write(st.start_from, ignore)
        byte == set_byte(Load(st.bits, st.location), mask, value,
                         st.bits_remaining, nbits, ignore)
    IN  [bits |-> Store(st.bits, st.location, byte),
         location |-> st.location + 1,
         bits_remaining |-> st.bits_remaining - nbits,
         start_from |-> 0,
         visited |-> Append(st.visited,
                        [location |-> st.location,
                         start_from |-> st.start_from,
                         bits_remaining |-> st.bits_remaining,
                         bits |-> nbits])]

RECURSIVE set_loop(_, _)
set_loop(value, st) ==
    IF st.bits_remaining > 0 THEN set_loop(value, set_iteration(value, st)) ELSE st

\* the final loop state of libadt_bitwise_array_set(array, index, value)
set_run(bits, width, index, value) ==
    LET byte_index == to_bytes(index * width)
    IN  set_loop(value, [bits |-> bits,
                         location |-> byte_index.quot,
                         bits_remaining |-> width,
                         start_from |-> byte_index.rem,
                         visited |-> <<>>])

\* the storage after libadt_bitwise_array_set(array, index, value)
libadt_bitwise_array_set(bits, width, index, value) ==
    set_run(bits, width, index, value).bits

(***************************************************************************)
(* The vector (src/src/vector.c).  The allocator's memory is a function    *)
(* from addresses to blocks [live, bytes]; a vector operation is given the *)
(* memory and returns the memory with the vector.  What realloc does is    *)
(* the allocator's choice `how`:                                           *)
(*   "fail"     a null pointer, the old block untouched;                    *)
(*   "inplace"  the old block resized where it is;                          *)
(*   "move"     a block at another address holding the old contents, the    *)
(*              old block released;                                         *)
(*   "release"  for a request of 0 bytes only: the old block released and   *)
(*              a null pointer returned, as glibc does.                     *)
(* Bytes that a larger block gains are indeterminate.                      *)
(***************************************************************************)
Addrs == {"p", "q"}

NoBlock == [live |-> FALSE, bytes |-> <<>>]

NoBlocks == [a \in Addrs |-> NoBlock]

MIN(a, b) == IF a < b THEN a ELSE b

\* the contents of a block of n bytes made from a block holding `bytes`
Resized(bytes, n, seed) ==
    [k \in 0 .. n - 1 |-> IF k \in DOMAIN bytes THEN bytes[k] ELSE Garbage(seed, k)]

\* an address the allocator can hand out
Fresh(mem, ptr) == CHOOSE a \in Addrs : a # ptr /\ ~mem[a].live

\* what realloc(ptr, size) may do
Hows(ptr, size) ==
    {"fail", "move"}
        \cup (IF ptr # NULL THEN {"inplace"} ELSE {})
        \cup (IF ptr # NULL /\ size = 0 THEN {"release"} ELSE {})

\* free(ptr)
free(mem, ptr) == IF ptr = NULL THEN mem ELSE [mem EXCEPT ![ptr] = NoBlock]

\* realloc(ptr, size): the pointer returned and the memory afterwards
realloc(mem, ptr, size, how, seed) ==
    CASE how = "fail" -> [ptr |-> NULL, mem |-> mem]
      [] how = "release" -> [ptr |-> NULL, mem |-> free(mem, ptr)]
      [] how = "inplace" ->
            [ptr |-> ptr,
             mem |-> [mem EXCEPT ![ptr].bytes = Resized(@, size, seed)]]
      [] how = "move" ->
            LET to == Fresh(mem, ptr)
                old == IF ptr = NULL THEN <<>> ELSE mem[ptr].bytes
            IN  [ptr |-> to,
                 mem |-> [free(mem, ptr) EXCEPT
                             ![to] = [live |-> TRUE,
                                      bytes |-> Resized(old, size, seed)]]]

\* (struct libadt_vector){ 0 }
ZeroVector == [buffer |-> NULL, size |-> 0, length |-> 0, capacity |-> 0]

\* identity as it would be if only the buffers were compared
libadt_vector_identity_buffer_only(first, second) ==
    first.buffer = second.buffer

libadt_vector_identity(first, second) ==
    /\ first.buffer = second.buffer
    /\ first.size = second.size
    /\ first.length = second.length
    /\ first.capacity = second.capacity

libadt_vector_valid(vec) == vec.size # 0

\* byte offset of element `index` in the buffer
libadt_vector_index(vec, index) == vec.size * index

\* end as it would be if the element size were left out
libadt_vector_end_unscaled(vec) == vec.length

libadt_vector_end(vec) == libadt_vector_index(vec, vec.length)

\* trunc as it would be if the result of realloc were stored unchecked
libadt_vector_trunc_unchecked(mem, vec, new_capacity, how, seed) ==
    LET attempt == realloc(mem, vec.buffer, vec.size * new_capacity, how, seed)
    IN  [vector |-> [buffer |-> attempt.ptr,
                     size |-> vec.size,
                     length |-> MIN(vec.length, new_capacity),
                     capacity |-> new_capacity],
         mem |-> attempt.mem]

libadt_vector_trunc(mem, vec, new_capacity, how, seed) ==
    LET attempt == realloc(mem, vec.buffer, vec.size * new_capacity, how, seed)
    IN  [vector |-> IF attempt.ptr # NULL
                    THEN [buffer |-> attempt.ptr,
                          size |-> vec.size,
                          length |-> MIN(vec.length, new_capacity),
                          capacity |-> new_capacity]
                    ELSE vec,
         mem |-> attempt.mem]

\* init as it would be if the capacity were recorded without an allocation
libadt_vector_init_unallocated(mem, size, initial_capacity, how, seed) ==
    [vector |-> [buffer |-> NULL, size |-> size, length |-> 0,
                 capacity |-> initial_capacity],
     mem |-> mem]

libadt_vector_init(mem, size, initial_capacity, how, seed) ==
    LET result == [buffer |-> NULL, size |-> size, length |-> 0, capacity |-> 0]
    IN  IF initial_capacity # 0
        THEN LET attempt == libadt_vector_trunc(mem, result, initial_capacity,
                                                how, seed)
             IN  IF libadt_vector_identity(attempt.vector, result)
                 THEN [vector |-> ZeroVector, mem |-> attempt.mem]
                 ELSE attempt
        ELSE [vector |-> result, mem |-> mem]

\* free as it would be if it handed the vector back as it was
libadt_vector_free_keeping(mem, vec) ==
    [vector |-> vec, mem |-> free(mem, vec.buffer)]

libadt_vector_free(mem, vec) ==
    [vector |-> ZeroVector, mem |-> free(mem, vec.buffer)]

\* memmove(dest, src, n) into the block holding `bytes`, dest at offset `at`
memmove(bytes, at, src, n) ==
    [k \in DOMAIN bytes |-> IF k \in at .. at + n - 1 THEN src[k - at] ELSE bytes[k]]

\* append_n as it would be if the capacity were only ever doubled
libadt_vector_append_n_doubling(mem, vec, data, number, how, seed) ==
    LET grow == number + vec.length > vec.capacity
        new_capacity == vec.capacity * 2
        new == IF grow
               THEN libadt_vector_trunc(mem, vec, new_capacity, how, seed)
               ELSE [vector |-> vec, mem |-> mem]
    IN  IF grow /\ libadt_vector_identity(new.vector, vec)
        THEN [vector |-> vec, mem |-> new.mem]
        ELSE [vector |-> [new.vector EXCEPT !.length = @ + number],
              mem |-> new.mem]

libadt_vector_append_n(mem, vec, data, number, how, seed) ==
    LET grow == number + vec.length > vec.capacity
        new_capacity == MAX(vec.capacity * 2, vec.capacity + number)
        new == IF grow
               THEN libadt_vector_trunc(mem, vec, new_capacity, how, seed)
               ELSE [vector |-> vec, mem |-> mem]
    IN  IF grow /\ libadt_vector_identity(new.vector, vec)
        THEN [vector |-> vec, mem |-> new.mem]
        ELSE [vector |-> [new.vector EXCEPT !.length = @ + number],
              mem |-> IF new.vector.size * number = 0
                      THEN new.mem
                      ELSE [new.mem EXCEPT
                               ![new.vector.buffer].bytes =
                                   memmove(@, libadt_vector_end(new.vector),
                                           data, new.vector.size * number)]]

libadt_vector_append(mem, vec, data, how, seed) ==
    libadt_vector_append_n(mem, vec, data, 1, how, seed)

libadt_vector_vacuum(mem, vec, how, seed) ==
    libadt_vector_trunc(mem, vec, vec.length, how, seed)

\* the `size` bytes of element `index`
Element(mem, vec, index) ==
    [k \in 0 .. vec.size - 1 |->
        mem[vec.buffer].bytes[libadt_vector_index(vec, index) + k]]

\* pop as it would be if it took the first element
libadt_vector_pop_first(mem, vec) ==
    LET popped == [vec EXCEPT !.length = @ - 1]
    IN  [vector |-> popped,
         out |-> Element(mem, popped, 0),
         mem |-> mem]

\* pop of a vector that holds an element: the vector returned and the bytes
\* written to out
libadt_vector_pop(mem, vec) ==
    LET popped == [vec EXCEPT !.length = @ - 1]
    IN  [vector |-> popped,
         out |-> Element(mem, popped, popped.length),
         mem |-> mem]

(***************************************************************************)
(* Inputs.                                                                 *)
(***************************************************************************)
Lengths == -1 .. MaxLength
Widths == -1 .. UINT_BIT
Seeds == 0 .. MaxSeed

\* u modulo 2^w, 0 <= w <= 32
ULowBits(u, w) ==
    IF w >= 16 THEN <<u[1] % (2 ^ (w - 16)), u[2]>> ELSE <<0, u[2] % (2 ^ w)>>

\* u < 2^w
UFits(u, w) == ULowBits(u, w) = u

Patterns ==
    { <<0, 0>>, <<65535, 65535>>, <<21845, 21845>>, <<32768, 0>>, <<4660, 22136>> }

\* the values offered to set for a given width: values that fit and values
\* that do not
Values(width) == Patterns \cup { ULowBits(p, width) : p \in Patterns }

NoCall ==
    [op |-> "none", length |-> 0, width |-> 0, index |-> 0, value |-> <<0, 0>>,
     result |-> <<0, 0>>, visited |-> <<>>, before |-> <<>>]

NoLoop == [op |-> "none"]

\* element sizes given to libadt_vector_init; 0 makes an invalid vector
Sizes == {0, 1, 2}

\* the indeterminate contents of the block libadt_vector_init allocates, and
\* of the bytes a block gains afterwards; no vector function reads a byte of
\* its buffer that it has not written
BlockSeeds == {0, 1}
GrownSeeds == {0}

\* which of the caller's arrays is appended
DataSeeds == {0, 1}

\* the caller's array of n bytes to append: distinct bytes, in order
Data(d, n) == [k \in 0 .. n - 1 |-> 1 + k + 16 * d]

NoVectorCall ==
    [op |-> "none", old |-> ZeroVector, before |-> NoBlocks, data |-> <<>>,
     number |-> 0, new_capacity |-> 0, how |-> "none", out |-> <<>>,
     calls |-> 0, prev |-> [op |-> "none"]]

NoScope == [pc |-> "none", trace |-> <<>>]

NoLptrCall == [op |-> "none"]

\* no vector has been made
VectorAtRest ==
    /\ vector = ZeroVector
    /\ blocks = NoBlocks
    /\ vlast = NoVectorCall
    /\ scope = NoScope

\* no lptr call has been made
LptrAtRest == lcall = NoLptrCall

(***************************************************************************)
(* The state machine: one caller that allocates an array, gets and sets    *)
(* elements at valid indices, and frees it.                                *)
(***************************************************************************)
Init ==
    /\ array = ZeroArray
    /\ heap = <<>>
    /\ heap_live = FALSE
    /\ malloc_log = <<>>
    /\ last = NoCall
    /\ nops = 0
    /\ loop = NoLoop
    /\ VectorAtRest /\ LptrAtRest

\* array = libadt_bitwise_array_alloc(length, width); when malloc is called it
\* may fail, and the block it returns is not initialised
Alloc ==
    /\ last.op = "none"
    /\ \E length \in Lengths, width \in Widths, ok \in BOOLEAN, seed \in Seeds :
        LET call == libadt_bitwise_array_alloc(
                        length, width, IF ok THEN BLOCK ELSE NULL)
            called == call.malloc # <<>>
        IN  /\ array' = call.array
            /\ malloc_log' = malloc_log \o call.malloc
            /\ heap_live' = (called /\ ok)
            /\ heap' = IF called /\ ok
                       THEN [k \in 0 .. call.malloc[1] - 1 |-> Garbage(seed, k)]
                       ELSE <<>>
            /\ last' = [NoCall EXCEPT !.op = "alloc", !.length = length,
                                      !.width = width]
    /\ UNCHANGED <<nops, loop, vector_vars, lptr_vars>>

\* Get as it would be if reading an element consumed it, leaving zero bits
\* behind
Get_consuming ==
    /\ heap_live /\ libadt_bitwise_array_valid(array)
    /\ nops < MaxOps
    /\ \E index \in 0 .. array.length - 1 :
        LET run == get_run(heap, array.width, index)
        IN  /\ heap' = libadt_bitwise_array_set(heap, array.width, index,
                                                ToUnsigned(0))
            /\ last' = [NoCall EXCEPT !.op = "get", !.index = index,
                                      !.length = last.length,
                                      !.width = last.width,
                                      !.result = run.result,
                                      !.visited = run.visited, !.before = heap]
    /\ nops' = nops + 1
    /\ UNCHANGED <<array, heap_live, malloc_log, loop, vector_vars, lptr_vars>>

\* libadt_bitwise_array_get(array, index) at a valid index; the array is
\* passed by value and its storage only read.  last.length and last.width
\* keep the values that were given to alloc.
Get ==
    /\ heap_live /\ libadt_bitwise_array_valid(array)
    /\ nops < MaxOps
    /\ \E index \in 0 .. array.length - 1 :
        LET run == get_run(heap, array.width, index)
        IN  last' = [NoCall EXCEPT !.op = "get", !.index = index,
                                   !.length = last.length,
                                   !.width = last.width,
                                   !.result = run.result,
                                   !.visited = run.visited, !.before = heap]
    /\ nops' = nops + 1
    /\ UNCHANGED <<array, heap, heap_live, malloc_log, loop, vector_vars, lptr_vars>>

\* libadt_bitwise_array_set(array, index, value) at a valid index
Set ==
    /\ heap_live /\ libadt_bitwise_array_valid(array)
    /\ nops < MaxOps
    /\ \E index \in 0 .. array.length - 1, value \in Values(array.width) :
        LET run == set_run(heap, array.width, index, value)
        IN  /\ heap' = run.bits
            /\ last' = [NoCall EXCEPT !.op = "set", !.index = index,
                                      !.length = last.length,
                                      !.width = last.width,
                                      !.value = value,
                                      !.visited = run.visited, !.before = heap]
    /\ nops' = nops + 1
    /\ UNCHANGED <<array, heap_live, malloc_log, loop, vector_vars, lptr_vars>>

\* Free as it would be if the release handed back a cleared struct that the
\* caller stored
Free_clearing ==
    /\ heap_live
    /\ heap_live' = FALSE
    /\ array' = ZeroArray
    /\ last' = [NoCall EXCEPT !.op = "free"]
    /\ UNCHANGED <<heap, malloc_log, nops, loop, vector_vars, lptr_vars>>

\* libadt_bitwise_array_free(array): the block goes back to the allocator; the
\* function returns nothing and the caller's struct, passed by value, keeps
\* its (now dangling) pointer
Free ==
    /\ heap_live
    /\ heap_live' = FALSE
    /\ last' = [NoCall EXCEPT !.op = "free"]
    /\ UNCHANGED <<array, heap, malloc_log, nops, loop, vector_vars, lptr_vars>>

Next == Alloc \/ Get \/ Set \/ Free

Spec == Init /\ [][Next]_vars

(***************************************************************************)
(* The loops of get and set, one iteration per step, for every width and   *)
(* every index up to MaxIndex of an array of MaxIndex + 1 elements whose    *)
(* block holds garbage.                                                     *)
(***************************************************************************)
LoopBuffer(width, seed) ==
    [k \in 0 .. alloc_bytes(MaxIndex + 1, width) - 1 |-> Garbage(seed, k)]

\* the loop state on entry: lines 69-75 of get, 100-105 of set
loop_entry(bits, width, index) ==
    LET byte_index == to_bytes(index * width)
    IN  [bits |-> bits,
         location |-> byte_index.quot,
         bits_remaining |-> width,
         start_from |-> byte_index.rem,
         result |-> ToUnsigned(0),
         visited |-> <<>>]

InitLoop ==
    /\ array = ZeroArray
    /\ heap = <<>>
    /\ heap_live = FALSE
    /\ malloc_log = <<>>
    /\ last = NoCall
    /\ nops = 0
    /\ VectorAtRest /\ LptrAtRest
    /\ \E op \in {"get", "set"}, width \in 1 .. UINT_BIT, index \in 0 .. MaxIndex,
          seed \in Seeds :
        \E value \in IF op = "set" THEN Values(width) ELSE {<<0, 0>>} :
            loop = [op |-> op, width |-> width, index |-> index, value |-> value,
                    start |-> to_bytes(index * width).rem,
                    st |-> loop_entry(LoopBuffer(width, seed), width, index)]

\* one iteration of the for loop of libadt_bitwise_array_get
GetStep ==
    /\ loop.op = "get"
    /\ loop.st.bits_remaining > 0
    /\ loop' = [loop EXCEPT !.st = get_iteration(loop.st.bits, loop.st)
                                    @@ [bits |-> loop.st.bits]]
    /\ UNCHANGED <<array, heap, heap_live, malloc_log, last, nops, vector_vars, lptr_vars>>

\* one iteration of the for loop of libadt_bitwise_array_set
SetStep ==
    /\ loop.op = "set"
    /\ loop.st.bits_remaining > 0
    /\ loop' = [loop EXCEPT !.st = set_iteration(loop.value, loop.st)
                                    @@ [result |-> loop.st.result]]
    /\ UNCHANGED <<array, heap, heap_live, malloc_log, last, nops, vector_vars, lptr_vars>>

NextLoop == GetStep \/ SetStep

SpecLoop == InitLoop /\ [][NextLoop]_vars

(***************************************************************************)
(* Two calls of libadt_bitwise_array_set in a row on an allocated array of *)
(* MaxLength elements of any width whose block holds garbage, with values  *)
(* that fit the width.                                                     *)
(***************************************************************************)
FittingValues(width) == { ULowBits(p, width) : p \in Patterns }

InitSets ==
    /\ \E width \in 1 .. UINT_BIT, seed \in Seeds :
        LET call == libadt_bitwise_array_alloc(MaxLength, width, BLOCK)
        IN  /\ array = call.array
            /\ malloc_log = call.malloc
            /\ heap = [k \in 0 .. call.malloc[1] - 1 |-> Garbage(seed, k)]
            /\ last = [NoCall EXCEPT !.op = "alloc", !.length = MaxLength,
                                     !.width = width]
    /\ heap_live = TRUE
    /\ nops = 0
    /\ loop = NoLoop
    /\ VectorAtRest /\ LptrAtRest

\* libadt_bitwise_array_set(array, index, value), the first call
SetFirst ==
    /\ nops = 0
    /\ \E index \in 0 .. array.length - 1, value \in FittingValues(array.width) :
        /\ heap' = libadt_bitwise_array_set(heap, array.width, index, value)
        /\ last' = [NoCall EXCEPT !.op = "set", !.index = index,
                                  !.length = last.length,
                                  !.width = last.width,
                                  !.value = value, !.before = heap]
    /\ nops' = 1
    /\ UNCHANGED <<array, heap_live, malloc_log, loop, vector_vars, lptr_vars>>

\* libadt_bitwise_array_set(array, index, value), the second call; `first`
\* keeps the first call and the storage it found
SetSecond ==
    /\ nops = 1
    /\ \E index \in 0 .. array.length - 1, value \in FittingValues(array.width) :
        /\ heap' = libadt_bitwise_array_set(heap, array.width, index, value)
        /\ last' = [op |-> "set", index |-> index, value |-> value,
                    length |-> last.length, width |-> last.width,
                    before |-> heap,
                    first |-> [index |-> last.index, value |-> last.value,
                               before |-> last.before]]
    /\ nops' = 2
    /\ UNCHANGED <<array, heap_live, malloc_log, loop, vector_vars, lptr_vars>>

NextSets == SetFirst \/ SetSecond

SpecSets == InitSets /\ [][NextSets]_vars

(***************************************************************************)
(* The vector's state machine: one caller that makes a vector with         *)
(* libadt_vector_init and then calls append_n, append, trunc, vacuum, pop  *)
(* and free on it, storing each returned vector.  Every realloc is free to *)
(* fail, resize in place or move.  A call on a vector whose block has been *)
(* released has undefined behaviour; the caller makes none.                *)
(***************************************************************************)
InitVector ==
    /\ array = ZeroArray
    /\ heap = <<>>
    /\ heap_live = FALSE
    /\ malloc_log = <<>>
    /\ last = NoCall
    /\ nops = 0
    /\ loop = NoLoop
    /\ VectorAtRest /\ LptrAtRest

\* the buffer is null or points to a block the vector still owns
Usable(mem, vec) == IF vec.buffer = NULL THEN TRUE ELSE mem[vec.buffer].live

\* the caller may make another call on its vector
Ready ==
    /\ vlast.op # "none"
    /\ libadt_vector_valid(vector)
    /\ Usable(blocks, vector)
    /\ vlast.calls < MaxVecOps

\* the record of a call being made; prev is the call before it
Called(op) ==
    [NoVectorCall EXCEPT !.op = op, !.old = vector, !.before = blocks,
                         !.calls = vlast.calls + 1,
                         !.prev = [op |-> vlast.op, old |-> vlast.old,
                                   data |-> vlast.data, number |-> vlast.number,
                                   how |-> vlast.how]]

\* vector = libadt_vector_init(size, initial_capacity)
VectorInit ==
    /\ vlast.op = "none"
    /\ \E size \in Sizes, initial_capacity \in 0 .. MaxCapacity, seed \in BlockSeeds :
        \E how \in IF initial_capacity = 0 THEN {"none"}
                   ELSE Hows(NULL, size * initial_capacity) :
            LET call == libadt_vector_init(blocks, size, initial_capacity,
                                           how, seed)
            IN  /\ vector' = call.vector
                /\ blocks' = call.mem
                /\ vlast' = [NoVectorCall EXCEPT
                                !.op = "init", !.how = how,
                                !.old = [ZeroVector EXCEPT !.size = size],
                                !.new_capacity = initial_capacity]
    /\ UNCHANGED <<scope, bitwise_vars, lptr_vars>>

\* vector = libadt_vector_append_n(vector, data, number), data outside the
\* vector's buffer
VectorAppendN ==
    /\ Ready
    /\ \E number \in 0 .. MaxNumber, d \in DataSeeds, seed \in GrownSeeds :
        LET new_capacity == MAX(vector.capacity * 2, vector.capacity + number)
            data == Data(d, vector.size * number)
        IN  \E how \in IF number + vector.length > vector.capacity
                       THEN Hows(vector.buffer, vector.size * new_capacity)
                       ELSE {"none"} :
                LET call == libadt_vector_append_n(blocks, vector, data, number,
                                                   how, seed)
                IN  /\ vector' = call.vector
                    /\ blocks' = call.mem
                    /\ vlast' = [Called("append_n") EXCEPT
                                    !.data = data, !.number = number,
                                    !.how = how]
    /\ UNCHANGED <<scope, bitwise_vars, lptr_vars>>

\* vector = libadt_vector_append(vector, data)
VectorAppend ==
    /\ Ready
    /\ \E d \in DataSeeds, seed \in GrownSeeds :
        LET new_capacity == MAX(vector.capacity * 2, vector.capacity + 1)
            data == Data(d, vector.size)
        IN  \E how \in IF 1 + vector.length > vector.capacity
                       THEN Hows(vector.buffer, vector.size * new_capacity)
                       ELSE {"none"} :
                LET call == libadt_vector_append(blocks, vector, data, how, seed)
                IN  /\ vector' = call.vector
                    /\ blocks' = call.mem
                    /\ vlast' = [Called("append") EXCEPT
                                    !.data = data, !.number = 1, !.how = how]
    /\ UNCHANGED <<scope, bitwise_vars, lptr_vars>>

\* vector = libadt_vector_trunc(vector, new_capacity)
VectorTrunc ==
    /\ Ready
    /\ \E new_capacity \in 0 .. MaxCapacity + 1, seed \in GrownSeeds :
        \E how \in Hows(vector.buffer, vector.size * new_capacity) :
            LET call == libadt_vector_trunc(blocks, vector, new_capacity,
                                            how, seed)
            IN  /\ vector' = call.vector
                /\ blocks' = call.mem
                /\ vlast' = [Called("trunc") EXCEPT
                                !.new_capacity = new_capacity, !.how = how]
    /\ UNCHANGED <<scope, bitwise_vars, lptr_vars>>

\* vector = libadt_vector_vacuum(vector)
VectorVacuum ==
    /\ Ready
    /\ \E seed \in GrownSeeds :
        \E how \in Hows(vector.buffer, vector.size * vector.length) :
            LET call == libadt_vector_vacuum(blocks, vector, how, seed)
            IN  /\ vector' = call.vector
                /\ blocks' = call.mem
                /\ vlast' = [Called("vacuum") EXCEPT
                                !.new_capacity = vector.length, !.how = how]
    /\ UNCHANGED <<scope, bitwise_vars, lptr_vars>>

\* vector = libadt_vector_pop(vector, &out) on a vector that holds an element
VectorPop ==
    /\ Ready
    /\ vector.length >= 1
    /\ LET call == libadt_vector_pop(blocks, vector)
       IN  /\ vector' = call.vector
           /\ blocks' = call.mem
           /\ vlast' = [Called("pop") EXCEPT !.out = call.out]
    /\ UNCHANGED <<scope, bitwise_vars, lptr_vars>>

\* vector = libadt_vector_free(vector)
VectorFree ==
    /\ Ready
    /\ LET call == libadt_vector_free(blocks, vector)
       IN  /\ vector' = call.vector
           /\ blocks' = call.mem
           /\ vlast' = Called("free")
    /\ UNCHANGED <<scope, bitwise_vars, lptr_vars>>

NextVector ==
    \/ VectorInit
    \/ VectorAppendN
    \/ VectorAppend
    \/ VectorTrunc
    \/ VectorVacuum
    \/ VectorPop
    \/ VectorFree

SpecVector == InitVector /\ [][NextVector]_vars

(***************************************************************************)
(* LIBADT_VECTOR_WITH(NAME, SIZE, INITIAL_CAPACITY) block: the for         *)
(* statement of the macro, one step per clause.  scope.pc is the clause    *)
(* about to run, scope.trace the clauses that have run, scope.made the     *)
(* vector that libadt_vector_init returned, scope.leave how the block was  *)
(* left.  The block appends to NAME, or does nothing, and ends normally,   *)
(* with continue or with break.                                            *)
(***************************************************************************)
InitWith ==
    /\ array = ZeroArray
    /\ heap = <<>>
    /\ heap_live = FALSE
    /\ malloc_log = <<>>
    /\ last = NoCall
    /\ nops = 0
    /\ loop = NoLoop
    /\ vector = ZeroVector
    /\ blocks = NoBlocks
    /\ vlast = NoVectorCall
    /\ scope = [pc |-> "init", trace |-> <<>>, made |-> ZeroVector,
                leave |-> "none"]
    /\ LptrAtRest

\* the number of times the block has run
Runs(trace) == Cardinality({k \in DOMAIN trace : trace[k] = "block"})

\* struct libadt_vector NAME = libadt_vector_init(SIZE, INITIAL_CAPACITY)
WithInit ==
    /\ scope.pc = "init"
    /\ \E size \in Sizes, initial_capacity \in 0 .. MaxCapacity, seed \in BlockSeeds :
        \E how \in IF initial_capacity = 0 THEN {"none"}
                   ELSE Hows(NULL, size * initial_capacity) :
            LET call == libadt_vector_init(blocks, size, initial_capacity,
                                           how, seed)
            IN  /\ vector' = call.vector
                /\ blocks' = call.mem
                /\ vlast' = [NoVectorCall EXCEPT
                                !.op = "init", !.how = how,
                                !.old = [ZeroVector EXCEPT !.size = size],
                                !.new_capacity = initial_capacity]
                /\ scope' = [scope EXCEPT !.pc = "test", !.made = call.vector,
                                          !.trace = Append(@, "init")]
    /\ UNCHANGED <<bitwise_vars, lptr_vars>>

\* the condition libadt_vector_valid(NAME)
WithTest ==
    /\ scope.pc = "test"
    /\ scope' = [scope EXCEPT
                    !.pc = IF libadt_vector_valid(vector) THEN "block" ELSE "exit",
                    !.trace = Append(@, "test")]
    /\ UNCHANGED <<vector, blocks, vlast, bitwise_vars, lptr_vars>>

\* the block
WithBlock ==
    /\ scope.pc = "block"
    /\ Runs(scope.trace) < MaxRuns
    /\ \E leave \in {"end", "continue", "break"} :
        scope' = [scope EXCEPT !.pc = IF leave = "break" THEN "left" ELSE "step",
                               !.leave = leave,
                               !.trace = Append(@, "block")]
    /\ \/ UNCHANGED <<vector, blocks, vlast>>
       \/ \E number \in 1 .. MaxNumber, d \in DataSeeds, seed \in GrownSeeds :
            LET new_capacity == MAX(vector.capacity * 2, vector.capacity + number)
                data == Data(d, vector.size * number)
            IN  \E how \in IF number + vector.length > vector.capacity
                           THEN Hows(vector.buffer, vector.size * new_capacity)
                           ELSE {"none"} :
                    LET call == libadt_vector_append_n(blocks, vector, data,
                                                       number, how, seed)
                    IN  /\ vector' = call.vector
                        /\ blocks' = call.mem
                        /\ vlast' = [Called("append_n") EXCEPT
                                        !.data = data, !.number = number,
                                        !.how = how]
    /\ UNCHANGED <<bitwise_vars, lptr_vars>>

\* the iteration expression NAME = libadt_vector_free(NAME)
WithStep ==
    /\ scope.pc = "step"
    /\ LET call == libadt_vector_free(blocks, vector)
       IN  /\ vector' = call.vector
           /\ blocks' = call.mem
           /\ vlast' = Called("free")
    /\ scope' = [scope EXCEPT !.pc = "test", !.trace = Append(@, "free")]
    /\ UNCHANGED <<bitwise_vars, lptr_vars>>

NextWith == WithInit \/ WithTest \/ WithBlock \/ WithStep

\* a running program takes its next step
SpecWith == InitWith /\ [][NextWith]_vars /\ WF_vars(NextWith)

(***************************************************************************)
(* The length-tracked pointer (src/src/libadt/lptr.h).  An lptr is a        *)
(* record [buffer, size, length]; a buffer is the byte address it points   *)
(* to.  ssize_t is taken as the 32-bit type of an ILP32 build.             *)
(***************************************************************************)
SSIZE_MAX == 2147483647

\* the address of the array the caller's lptr is made from
BufferAddress == 64

\* libadt_const_lptr(ptr): the const view of an lptr
libadt_const_lptr(ptr) ==
    [buffer |-> ptr.buffer, size |-> ptr.size, length |-> ptr.length]

\* the struct read back as a struct libadt_lptr
libadt_lptr_unconst_cast(cptr) ==
    [buffer |-> cptr.buffer, size |-> cptr.size, length |-> cptr.length]

libadt_const_lptr_in_bounds(lptr) == lptr.length > 0

libadt_lptr_in_bounds(lptr) ==
    libadt_const_lptr_in_bounds(libadt_const_lptr(lptr))

libadt_const_lptr_truncate(lptr, length) ==
    [buffer |-> lptr.buffer, size |-> lptr.size, length |-> length]

libadt_lptr_truncate(lptr, length) ==
    libadt_lptr_unconst_cast(
        libadt_const_lptr_truncate(libadt_const_lptr(lptr), length))

libadt_const_lptr_index(lptr, index) ==
    LET byte_index == index * lptr.size
    IN  [buffer |-> lptr.buffer + byte_index,
         size |-> lptr.size,
         length |-> lptr.length - index]

libadt_lptr_index(lptr, index) ==
    libadt_lptr_unconst_cast(
        libadt_const_lptr_index(libadt_const_lptr(lptr), index))

\* a size that already gives up at the largest representable product
libadt_const_lptr_size_early(lptr) ==
    IF SSIZE_MAX \div lptr.size <= lptr.length
    THEN -1
    ELSE lptr.size * lptr.length

libadt_const_lptr_size(lptr) ==
    IF SSIZE_MAX \div lptr.size < lptr.length
    THEN -1
    ELSE lptr.size * lptr.length

libadt_const_lptr_after(base, offset) ==
    LET remaining_offset ==
            (offset.buffer - base.buffer) + libadt_const_lptr_size(offset)
    IN  libadt_const_lptr_index(base, remaining_offset)

libadt_lptr_after(base, offset) ==
    LET remaining_offset ==
            (offset.buffer - base.buffer)
                + libadt_const_lptr_size(libadt_const_lptr(offset))
    IN  libadt_lptr_index(base, remaining_offset)

(***************************************************************************)
(* The lptr functions applied once to an lptr over a whole array of 1 to   *)
(* MaxLptrLength elements of 1 to 3 bytes, through the const and the       *)
(* non-const interface.                                                    *)
(***************************************************************************)
LptrSizes == {1, 2, 3}

Bases ==
    { [buffer |-> BufferAddress, size |-> s, length |-> l] :
        s \in LptrSizes, l \in 1 .. MaxLptrLength }

InitLptr ==
    /\ array = ZeroArray
    /\ heap = <<>>
    /\ heap_live = FALSE
    /\ malloc_log = <<>>
    /\ last = NoCall
    /\ nops = 0
    /\ loop = NoLoop
    /\ VectorAtRest
    /\ \E base \in Bases : lcall = [op |-> "none", base |-> base]

\* result = libadt_lptr_index(base, index) or libadt_const_lptr_index, and
\* the bounds check of the result
LptrIndex ==
    /\ lcall.op = "none"
    /\ \E index \in -2 .. MaxLptrLength + 1, const \in BOOLEAN :
        LET result == IF const THEN libadt_const_lptr_index(lcall.base, index)
                      ELSE libadt_lptr_index(lcall.base, index)
        IN  lcall' = [op |-> "index", const |-> const, base |-> lcall.base,
                      index |-> index, result |-> result,
                      in_bounds |-> IF const
                                    THEN libadt_const_lptr_in_bounds(result)
                                    ELSE libadt_lptr_in_bounds(result)]
    /\ UNCHANGED <<bitwise_vars, vector_vars>>

\* result = libadt_lptr_truncate(base, length) or libadt_const_lptr_truncate
LptrTruncate ==
    /\ lcall.op = "none"
    /\ \E length \in 0 .. MaxLptrLength + 1, const \in BOOLEAN :
        lcall' = [op |-> "truncate", const |-> const, base |-> lcall.base,
                  length |-> length,
                  result |-> IF const
                             THEN libadt_const_lptr_truncate(lcall.base, length)
                             ELSE libadt_lptr_truncate(lcall.base, length)]
    /\ UNCHANGED <<bitwise_vars, vector_vars>>

\* offset = truncate(index(base, index), length) inside base, then
\* result = libadt_lptr_after(base, offset) or libadt_const_lptr_after
LptrAfter ==
    /\ lcall.op = "none"
    /\ \E index \in 0 .. lcall.base.length, const \in BOOLEAN :
        \E length \in 0 .. lcall.base.length - index :
            LET offset ==
                    IF const
                    THEN libadt_const_lptr_truncate(
                             libadt_const_lptr_index(lcall.base, index), length)
                    ELSE libadt_lptr_truncate(
                             libadt_lptr_index(lcall.base, index), length)
            IN  lcall' = [op |-> "after", const |-> const, base |-> lcall.base,
                          index |-> index, length |-> length, offset |-> offset,
                          result |-> IF const
                                     THEN libadt_const_lptr_after(lcall.base, offset)
                                     ELSE libadt_lptr_after(lcall.base, offset)]
    /\ UNCHANGED <<bitwise_vars, vector_vars>>

NextLptr == LptrIndex \/ LptrTruncate \/ LptrAfter

SpecLptr == InitLptr /\ [][NextLptr]_vars

(***************************************************************************)
(* Allocated lptrs (src/src/libadt/lptr.h): libadt_lptr_calloc,            *)
(* libadt_lptr_reallocarray and libadt_lptr_free on the allocator's blocks. *)
(* The allocator holds HeapBytes bytes: a larger request fails.  An        *)
(* integer division by zero either traps, so that the call never returns,  *)
(* or yields 0, as the instruction sets in use do.                         *)
(***************************************************************************)
\* (struct libadt_lptr){ 0 }
ZeroLptr == [buffer |-> NULL, size |-> 0, length |-> 0]

libadt_lptr_allocated(lptr) == lptr.buffer # NULL

\* what calloc(nmemb, size) may do
CallocHows(nmemb, size) ==
    IF nmemb > HeapBytes \div size THEN {"fail"} ELSE {"fail", "move"}

\* what realloc(ptr, size) may do in this allocator
LptrHows(ptr, size) == IF size > HeapBytes THEN {"fail"} ELSE Hows(ptr, size)

\* calloc(nmemb, size): a zeroed block, or a null pointer
calloc(mem, nmemb, size, how) ==
    IF how = "fail"
    THEN [ptr |-> NULL, mem |-> mem]
    ELSE LET to == Fresh(mem, NULL)
         IN  [ptr |-> to,
              mem |-> [mem EXCEPT ![to] = [live |-> TRUE,
                                           bytes |-> [k \in 0 .. nmemb * size - 1
                                                         |-> 0]]]]

libadt_lptr_calloc(mem, nmemb, size, how) ==
    LET attempt == calloc(mem, nmemb, size, how)
    IN  [lptr |-> [buffer |-> attempt.ptr, size |-> size, length |-> nmemb],
         mem |-> attempt.mem]

\* what SSIZE_MAX / divisor may do
Divisions(divisor) == IF divisor = 0 THEN {"trap", "zero"} ELSE {"exact"}

\* reallocarray: the lptr returned, the memory, the sizes asked of realloc,
\* and whether the call trapped instead of returning
libadt_lptr_reallocarray(mem, lptr, nmemb, how, seed, division) ==
    IF division = "trap"
    THEN [trap |-> TRUE, lptr |-> lptr, mem |-> mem, asked |-> <<>>]
    ELSE LET quotient == IF division = "zero" THEN 0 ELSE SSIZE_MAX \div nmemb
         IN  IF quotient < lptr.size
             THEN [trap |-> FALSE, lptr |-> lptr, mem |-> mem, asked |-> <<>>]
             ELSE LET new_size == lptr.size * nmemb
                      attempt == realloc(mem, lptr.buffer, new_size, how, seed)
                  IN  [trap |-> FALSE,
                       lptr |-> IF attempt.ptr # NULL
                                THEN [buffer |-> attempt.ptr,
                                      size |-> lptr.size,
                                      length |-> nmemb]
                                ELSE lptr,
                       mem |-> attempt.mem,
                       asked |-> <<new_size>>]

libadt_lptr_free(mem, lptr) == [lptr |-> ZeroLptr, mem |-> free(mem, lptr.buffer)]

\* member sizes and lengths given to calloc
CallocSizes == {1, 2, 4}
CallocLengths == 1 .. MaxLptrLength

\* lengths given to reallocarray for an lptr of members of `size` bytes: small
\* ones, and those about the largest whose byte size fits an ssize_t
Nmembs(size) ==
    LET most == SSIZE_MAX \div size
    IN  (0 .. MaxLptrLength + 1)
            \cup {most - 1, most, SSIZE_MAX - 1, SSIZE_MAX}
            \cup (IF most < SSIZE_MAX THEN {most + 1} ELSE {})

NoAllocCall ==
    [op |-> "none", lptr |-> ZeroLptr, old |-> ZeroLptr, before |-> NoBlocks,
     nmemb |-> 0, how |-> "none", trap |-> FALSE, asked |-> <<>>]

InitLptrAlloc ==
    /\ array = ZeroArray
    /\ heap = <<>>
    /\ heap_live = FALSE
    /\ malloc_log = <<>>
    /\ last = NoCall
    /\ nops = 0
    /\ loop = NoLoop
    /\ VectorAtRest
    /\ lcall = NoAllocCall

\* lptr = libadt_lptr_calloc(nmemb, size)
LptrCalloc ==
    /\ lcall.op = "none"
    /\ \E nmemb \in CallocLengths, size \in CallocSizes :
        \E how \in CallocHows(nmemb, size) :
            LET call == libadt_lptr_calloc(blocks, nmemb, size, how)
            IN  /\ blocks' = call.mem
                /\ lcall' = [NoAllocCall EXCEPT !.op = "calloc", !.how = how,
                                                !.nmemb = nmemb,
                                                !.lptr = call.lptr]
    /\ UNCHANGED <<vector, vlast, scope, bitwise_vars>>

\* lptr = libadt_lptr_reallocarray(lptr, nmemb) on an allocated lptr
LptrReallocarray ==
    /\ lcall.op = "calloc"
    /\ libadt_lptr_allocated(lcall.lptr)
    /\ \E nmemb \in Nmembs(lcall.lptr.size), seed \in GrownSeeds :
        \E division \in Divisions(nmemb),
           how \in IF nmemb > SSIZE_MAX \div lcall.lptr.size
                   THEN {"none"}
                   ELSE LptrHows(lcall.lptr.buffer, lcall.lptr.size * nmemb) :
            LET call == libadt_lptr_reallocarray(blocks, lcall.lptr, nmemb,
                                                 how, seed, division)
            IN  /\ blocks' = call.mem
                /\ lcall' = [NoAllocCall EXCEPT
                                !.op = "reallocarray", !.how = how,
                                !.nmemb = nmemb, !.old = lcall.lptr,
                                !.before = blocks, !.trap = call.trap,
                                !.asked = call.asked, !.lptr = call.lptr]
    /\ UNCHANGED <<vector, vlast, scope, bitwise_vars>>

\* lptr = libadt_lptr_free(lptr)
LptrFree ==
    /\ lcall.op \in {"calloc", "reallocarray"}
    /\ ~lcall.trap
    /\ LET call == libadt_lptr_free(blocks, lcall.lptr)
       IN  /\ blocks' = call.mem
           /\ lcall' = [NoAllocCall EXCEPT !.op = "free", !.old = lcall.lptr,
                                           !.before = blocks,
                                           !.lptr = call.lptr]
    /\ UNCHANGED <<vector, vlast, scope, bitwise_vars>>

NextLptrAlloc == LptrCalloc \/ LptrReallocarray \/ LptrFree

SpecLptrAlloc == InitLptrAlloc /\ [][NextLptrAlloc]_vars

(***************************************************************************)
(* Copying between lptrs (src/src/libadt/lptr.h,                            *)
(* _libadt_lptr_memory_copy_op).  The memory is a function from byte       *)
(* addresses to bytes.  C's / and % truncate toward zero.                  *)
(***************************************************************************)
CDiv(a, b) == IF a >= 0 THEN a \div b ELSE -((-a) \div b)

CRem(a, b) == a - b * CDiv(a, b)

\* what one activation of _libadt_lptr_memory_copy_op(dest, src, self,
\* syscall) computes before it calls anything: lines 584-627.  The casts
\* (size_t) of a length followed by truncate's (ssize_t) give the length back.
copy_frame(dest, src) ==
    LET dest_size == libadt_const_lptr_size(libadt_const_lptr(dest))
        src_size == libadt_const_lptr_size(src)
        limit == IF dest_size < src_size THEN dest_size ELSE src_size
        overflow == dest_size < 0 \/ src_size < 0
        second_dest_start == CDiv(dest.length, 2)
        first_dest == libadt_lptr_truncate(dest, second_dest_start)
        second_dest == libadt_lptr_index(dest, second_dest_start)
        new_total_size == libadt_const_lptr_size(libadt_const_lptr(first_dest))
        second_src_start == CDiv(new_total_size, src.size)
        second_src_remainder == CRem(new_total_size, src.size)
        first_src == libadt_const_lptr_truncate(
                         src,
                         second_src_start
                             + (IF second_src_remainder # 0 THEN 1 ELSE 0))
        second_src == libadt_const_lptr_index(src, second_src_start)
    IN  IF overflow
        THEN [overflow |-> TRUE, limit |-> limit,
              first_dest |-> first_dest, first_src |-> first_src,
              second_dest |-> second_dest, second_src |-> second_src]
        ELSE [overflow |-> FALSE, limit |-> limit,
              first_dest |-> dest, first_src |-> src,
              second_dest |-> dest, second_src |-> src]

\* a copy that stops one byte early
copy_bytes_short(mem, dest, src, n) ==
    [a \in DOMAIN mem |-> IF a \in dest .. dest + n - 2
                          THEN mem[src + (a - dest)]
                          ELSE mem[a]]

\* memcpy(dest, src, n) and memmove(dest, src, n) on the memory, for regions
\* inside it; memcpy is given regions that do not overlap
copy_bytes(mem, dest, src, n) ==
    [a \in DOMAIN mem |-> IF a \in dest .. dest + n - 1
                          THEN mem[src + (a - dest)]
                          ELSE mem[a]]

\* libadt_lptr_memcpy(dest, src) and libadt_lptr_memmove(dest, src) for lptrs
\* whose byte sizes are representable: the memory afterwards, the lptr
\* returned and the arguments given to the copy primitive
libadt_lptr_memcpy(mem, dest, src) ==
    LET frame == copy_frame(dest, src)
    IN  [mem |-> copy_bytes(mem, frame.first_dest.buffer,
                            frame.first_src.buffer, frame.limit),
         lptr |-> dest,
         syscall |-> [dest |-> frame.first_dest.buffer,
                      src |-> frame.first_src.buffer,
                      n |-> ToUnsigned(frame.limit)]]

libadt_lptr_memmove(mem, dest, src) ==
    LET frame == copy_frame(dest, src)
    IN  [mem |-> copy_bytes(mem, frame.first_dest.buffer,
                            frame.first_src.buffer, frame.limit),
         lptr |-> dest,
         syscall |-> [dest |-> frame.first_dest.buffer,
                      src |-> frame.first_src.buffer,
                      n |-> ToUnsigned(frame.limit)]]

(***************************************************************************)
(* One copy between two lptrs that lie inside a memory of MemBytes bytes   *)
(* holding distinct bytes.                                                 *)
(***************************************************************************)
Memory == [a \in 0 .. MemBytes - 1 |-> 16 + a]

\* the lptrs over part of the memory, the empty ones included
Views ==
    { v \in [buffer : 0 .. MemBytes - 1, size : {1, 2, 3},
             length : 0 .. MemBytes] :
        v.buffer + v.size * v.length <= MemBytes }

\* the regions of n bytes at a and at b share a byte
Overlap(a, b, n) == n > 0 /\ a < b + n /\ b < a + n

InitLptrCopy ==
    /\ array = ZeroArray
    /\ heap = <<>>
    /\ heap_live = FALSE
    /\ malloc_log = <<>>
    /\ last = NoCall
    /\ nops = 0
    /\ loop = NoLoop
    /\ VectorAtRest
    /\ \E dest \in Views, src \in Views :
        lcall = [op |-> "none", dest |-> dest, src |-> src, mem |-> Memory]

\* result = libadt_lptr_memcpy(dest, src), the regions not overlapping
LptrMemcpy ==
    /\ lcall.op = "none"
    /\ ~Overlap(lcall.dest.buffer, lcall.src.buffer,
                copy_frame(lcall.dest, lcall.src).limit)
    /\ LET call == libadt_lptr_memcpy(lcall.mem, lcall.dest, lcall.src)
       IN  lcall' = [op |-> "memcpy", dest |-> lcall.dest, src |-> lcall.src,
                     before |-> lcall.mem, mem |-> call.mem,
                     result |-> call.lptr, syscall |-> call.syscall]
    /\ UNCHANGED <<bitwise_vars, vector_vars>>

\* result = libadt_lptr_memmove(dest, src)
LptrMemmove ==
    /\ lcall.op = "none"
    /\ LET call == libadt_lptr_memmove(lcall.mem, lcall.dest, lcall.src)
       IN  lcall' = [op |-> "memmove", dest |-> lcall.dest, src |-> lcall.src,
                     before |-> lcall.mem, mem |-> call.mem,
                     result |-> call.lptr, syscall |-> call.syscall]
    /\ UNCHANGED <<bitwise_vars, vector_vars>>

NextLptrCopy == LptrMemcpy \/ LptrMemmove

SpecLptrCopy == InitLptrCopy /\ [][NextLptrCopy]_vars

(***************************************************************************)
(* Measuring and comparing lptrs: libadt_const_lptr_size and               *)
(* libadt_const_lptr_equal (src/src/libadt/lptr.h).  The lptrs compared    *)
(* lie inside a memory whose bytes repeat, so that distinct regions can    *)
(* hold the same contents; the lptrs measured also have the lengths next   *)
(* to SSIZE_MAX / size.                                                    *)
(***************************************************************************)
\* memcmp(first, second, n): the sign of the first difference
memcmp(mem, first, second, n) ==
    LET differ == { k \in 0 .. n - 1 : mem[first + k] # mem[second + k] }
    IN  IF differ = {}
        THEN 0
        ELSE LET k == CHOOSE d \in differ : \A e \in differ : d <= e
             IN  IF mem[first + k] < mem[second + k] THEN -1 ELSE 1

\* an equality that looks at the first byte only
libadt_const_lptr_equal_first_byte(mem, first, second) ==
    IF first.length # second.length \/ first.size # second.size
    THEN 0
    ELSE IF memcmp(mem, first.buffer, second.buffer,
                   MIN(1, libadt_const_lptr_size(first))) = 0
         THEN 1
         ELSE 0

libadt_const_lptr_equal(mem, first, second) ==
    IF first.length # second.length \/ first.size # second.size
    THEN 0
    ELSE IF memcmp(mem, first.buffer, second.buffer,
                   libadt_const_lptr_size(first)) = 0
         THEN 1
         ELSE 0

RepeatingMemory == [a \in 0 .. MemBytes - 1 |-> 16 + ((a \div 2) % 2)]

MeasuredSizes == {1, 2, 3, 4, 65536, SSIZE_MAX}

\* the lengths around the largest one whose byte size is representable
MeasuredLengths(size) ==
    LET most == SSIZE_MAX \div size
    IN  0 .. MaxLptrLength
            \cup {most - 1, most}
            \cup (IF most < SSIZE_MAX THEN {most + 1} ELSE {})
            \cup {SSIZE_MAX}

Measured ==
    UNION { { [buffer |-> BufferAddress, size |-> s, length |-> l] :
                l \in MeasuredLengths(s) } : s \in MeasuredSizes }

InitLptrMeasure ==
    /\ array = ZeroArray
    /\ heap = <<>>
    /\ heap_live = FALSE
    /\ malloc_log = <<>>
    /\ last = NoCall
    /\ nops = 0
    /\ loop = NoLoop
    /\ VectorAtRest
    /\ \/ \E lptr \in Measured : lcall = [op |-> "none", lptr |-> lptr]
       \/ \E first \in Views, second \in Views :
            lcall = [op |-> "none", first |-> first, second |-> second,
                     mem |-> RepeatingMemory]

\* result = libadt_const_lptr_size(lptr)
LptrSize ==
    /\ lcall.op = "none"
    /\ "lptr" \in DOMAIN lcall
    /\ lcall' = [op |-> "size", lptr |-> lcall.lptr,
                 result |-> libadt_const_lptr_size(lcall.lptr)]
    /\ UNCHANGED <<bitwise_vars, vector_vars>>

\* result = libadt_const_lptr_equal(first, second)
LptrEqual ==
    /\ lcall.op = "none"
    /\ "first" \in DOMAIN lcall
    /\ lcall' = [op |-> "equal", first |-> lcall.first,
                 second |-> lcall.second, mem |-> lcall.mem,
                 result |-> libadt_const_lptr_equal(lcall.mem, lcall.first,
                                                    lcall.second)]
    /\ UNCHANGED <<bitwise_vars, vector_vars>>

NextLptrMeasure == LptrSize \/ LptrEqual

SpecLptrMeasure == InitLptrMeasure /\ [][NextLptrMeasure]_vars

(***************************************************************************)
(* _libadt_lptr_memory_copy_op step by step, for lptrs whose byte size may *)
(* not be representable.  The stack holds one frame per activation: its    *)
(* arguments and whether it has made its recursive call.  The log holds    *)
(* the calls of the copy primitive: the two pieces and the byte count      *)
(* (size_t)limit.  A byte count beyond the pieces makes the primitive      *)
(* read and write outside them, which the process may or may not survive.  *)
(***************************************************************************)
\* u <= v on unsigned ints
ULessEq(u, v) == u[1] < v[1] \/ (u[1] = v[1] /\ u[2] <= v[2])

\* the bytes an lptr really spans, as a size_t: none when its length is
\* negative, all of the address space when they cannot be counted
Available(lptr) ==
    LET size == libadt_const_lptr_size(lptr)
    IN  IF size = -1 THEN ToUnsigned(-1)
        ELSE IF size < 0 THEN ToUnsigned(0)
        ELSE ToUnsigned(size)

\* the byte count fits both pieces
Fits(call) ==
    /\ ULessEq(call.n, Available(call.dest))
    /\ ULessEq(call.n, Available(call.src))

\* what the copy primitive can do to the process
Faults(call) == IF Fits(call) THEN {FALSE} ELSE {FALSE, TRUE}

\* lptrs over real, small arrays
SmallLptrs(buffer) ==
    { [buffer |-> buffer, size |-> s, length |-> l] :
        s \in {1, 2}, l \in 0 .. MaxLptrLength }

\* lptrs whose size * length is just past SSIZE_MAX
HugeLptrs(buffer) ==
    { [buffer |-> buffer, size |-> s, length |-> (SSIZE_MAX \div s) + 1] :
        s \in {2, 4, 536870912} }

InitLptrCopyOp ==
    /\ array = ZeroArray
    /\ heap = <<>>
    /\ heap_live = FALSE
    /\ malloc_log = <<>>
    /\ last = NoCall
    /\ nops = 0
    /\ loop = NoLoop
    /\ VectorAtRest
    /\ \E dest \in SmallLptrs(BufferAddress) \cup HugeLptrs(BufferAddress),
          src \in SmallLptrs(2 * BufferAddress)
                      \cup HugeLptrs(2 * BufferAddress)
                      \cup { [buffer |-> 2 * BufferAddress, size |-> 2,
                              length |-> SSIZE_MAX] } :
        lcall = [op |-> "none", dest |-> dest, src |-> src, stack |-> <<>>,
                 log |-> <<>>, fault |-> FALSE]

\* libadt_lptr_memcpy(dest, src) or libadt_lptr_memmove(dest, src) enters
\* _libadt_lptr_memory_copy_op
CopyBegin ==
    /\ lcall.op = "none"
    /\ \E op \in {"memcpy", "memmove"} :
        lcall' = [lcall EXCEPT
                     !.op = op,
                     !.stack = <<[dest |-> lcall.dest, src |-> lcall.src,
                                  pc |-> "entry"]>>]
    /\ UNCHANGED <<bitwise_vars, vector_vars>>

\* lines 584-629: the sizes do not fit, the activation splits dest and src
\* and calls itself on the second parts
CopyRecurse ==
    /\ lcall.op # "none" /\ ~lcall.fault
    /\ lcall.stack # <<>>
    /\ Len(lcall.stack) < MaxFrames
    /\ LET top == lcall.stack[Len(lcall.stack)]
           frame == copy_frame(top.dest, top.src)
       IN  /\ top.pc = "entry"
           /\ frame.overflow
           /\ lcall' = [lcall EXCEPT
                           !.stack = Append(
                               [@ EXCEPT ![Len(@)].pc = "called"],
                               [dest |-> frame.second_dest,
                                src |-> frame.second_src,
                                pc |-> "entry"])]
    /\ UNCHANGED <<bitwise_vars, vector_vars>>

\* lines 631-632: syscall(first_dest.buffer, first_src.buffer, (size_t)limit)
\* and return, the recursive call, if one was made, having returned
CopySyscall ==
    /\ lcall.op # "none" /\ ~lcall.fault
    /\ lcall.stack # <<>>
    /\ LET top == lcall.stack[Len(lcall.stack)]
           frame == copy_frame(top.dest, top.src)
           call == [dest |-> frame.first_dest, src |-> frame.first_src,
                    n |-> ToUnsigned(frame.limit)]
       IN  /\ top.pc = "called" \/ ~frame.overflow
           /\ \E fault \in Faults(call) :
                lcall' = [lcall EXCEPT
                             !.stack = SubSeq(@, 1, Len(@) - 1),
                             !.log = Append(@, call),
                             !.fault = fault]
    /\ UNCHANGED <<bitwise_vars, vector_vars>>

NextLptrCopyOp == CopyBegin \/ CopyRecurse \/ CopySyscall

SpecLptrCopyOp == InitLptrCopyOp /\ [][NextLptrCopyOp]_vars

(***************************************************************************)
(* Vocabulary of the properties.                                           *)
(***************************************************************************)
ValidWidth == array.width \in 1 .. UINT_BIT

Indices == 0 .. array.length - 1

\* bit n of the storage, bit 0 being the most significant bit of byte 0
StorageBit(bits, n) ==
    (bits[n \div CHAR_BIT] \div (2 ^ (CHAR_BIT - 1 - (n % CHAR_BIT)))) % 2

\* the number whose binary digits, most significant first, are the `count`
\* storage bits from bit `first` on (count <= 16)
RECURSIVE Digits(_, _, _)
Digits(bits, first, count) ==
    IF count = 0 THEN 0
    ELSE 2 * Digits(bits, first, count - 1) + StorageBit(bits, first + count - 1)

\* the same for up to 32 bits, as an unsigned int
BitsValue(bits, first, count) ==
    IF count > 16
    THEN <<Digits(bits, first, count - 16), Digits(bits, first + count - 16, 16)>>
    ELSE <<0, Digits(bits, first, count)>>

\* the byte offset a set or get of last.index starts at, and its bit offset
StartByte == (last.index * array.width) \div CHAR_BIT
StartBit == (last.index * array.width) % CHAR_BIT

(***************************************************************************)
(* C1  Round trip: after set(a, index, value) with a value that fits the   *)
(* width, whatever the buffer held before, get(a, index) returns value.    *)
(***************************************************************************)
C1_RoundTrip ==
    (last.op = "set" /\ ValidWidth /\ UFits(last.value, array.width))
        => libadt_bitwise_array_get(heap, array.width, last.index) = last.value

\* a 15-bit value written across three bytes of a buffer that held 0xff
C1_Witness ==
    /\ last.op = "set" /\ array.width = 15 /\ last.index = 1
    /\ last.value = <<0, 21845>>
    /\ last.before[1] = 255
    /\ Len(last.visited) = 3
    /\ libadt_bitwise_array_get(heap, array.width, last.index) = last.value

(***************************************************************************)
(* C2  Non-interference: set(a, i, value) with a value that fits leaves    *)
(* get(a, j) as it was for every other valid index j.                      *)
(***************************************************************************)
C2_NonInterference ==
    (last.op = "set" /\ ValidWidth /\ UFits(last.value, array.width))
        => \A j \in Indices \ {last.index} :
              libadt_bitwise_array_get(heap, array.width, j)
                = libadt_bitwise_array_get(last.before, array.width, j)

\* elements 0, 1 and 2 of width 3 share byte 0; element 1 is rewritten
C2_Witness ==
    /\ last.op = "set" /\ array.width = 3 /\ array.length = 3 /\ last.index = 1
    /\ last.value = <<0, 5>>
    /\ heap # last.before
    /\ libadt_bitwise_array_get(heap, 3, 0) = <<0, 7>>
    /\ libadt_bitwise_array_get(last.before, 3, 0) = <<0, 7>>
    /\ libadt_bitwise_array_get(heap, 3, 2) = libadt_bitwise_array_get(last.before, 3, 2)

(***************************************************************************)
(* C3  Binary layout: get(a, i) is the number whose binary digits, most    *)
(* significant first, are storage bits i*width .. (i+1)*width-1; for width *)
(* 8 it is byte i.                                                         *)
(***************************************************************************)
C3_BinaryLayout ==
    (heap_live /\ ValidWidth)
        => \A i \in Indices :
              /\ libadt_bitwise_array_get(heap, array.width, i)
                    = BitsValue(heap, i * array.width, array.width)
              /\ array.width = CHAR_BIT
                    => libadt_bitwise_array_get(heap, array.width, i) = <<0, heap[i]>>

\* a 13-bit element starting 2 bits into byte 3, read back after a set
C3_Witness ==
    /\ heap_live /\ array.width = 13 /\ array.length = 3
    /\ last.op = "set" /\ last.index = 1 /\ last.value = <<0, 5752>>
    /\ libadt_bitwise_array_get(heap, 13, 2) = BitsValue(heap, 26, 13)
    /\ libadt_bitwise_array_get(heap, 13, 2) # <<0, 0>>

(***************************************************************************)
(* C4  Memory safety: a get or set at a valid index of an allocated array  *)
(* reads and writes only bytes 0 .. (length*width div 8), all of them      *)
(* inside the (length*width div 8) + 1 bytes that were allocated.          *)
(***************************************************************************)
C4_MemorySafety ==
    (last.op \in {"get", "set"} /\ ValidWidth)
        => \A k \in 1 .. Len(last.visited) :
              /\ last.visited[k].location \in
                    0 .. ((array.length * array.width) \div CHAR_BIT)
              /\ last.visited[k].location < malloc_log[1]
              /\ last.visited[k].location \in DOMAIN heap

\* the last element of a 3 x 3 bit array ends in the extra byte
C4_Witness ==
    /\ last.op = "set" /\ array.width = 3 /\ array.length = 3 /\ last.index = 2
    /\ Len(last.visited) = 2
    /\ last.visited[2].location = (array.length * array.width) \div CHAR_BIT
    /\ malloc_log = <<2>>

(***************************************************************************)
(* C5  Oversized values.  As claimed: a set of a value >= 2^width writes   *)
(* only the low width bits, so that get returns value mod 2^width and no   *)
(* other element changes.                                                  *)
(***************************************************************************)
Oversized ==
    /\ last.op = "set"
    /\ array.width \in 1 .. UINT_BIT - 1
    /\ ~UFits(last.value, array.width)

OthersUnchanged ==
    \A j \in Indices \ {last.index} :
        libadt_bitwise_array_get(heap, array.width, j)
            = libadt_bitwise_array_get(last.before, array.width, j)

C5_OversizedTruncated ==
    Oversized
        => /\ libadt_bitwise_array_get(heap, array.width, last.index)
                = ULowBits(last.value, array.width)
           /\ OthersUnchanged

\* bits width .. width+StartBit-1 of the value are zero: nothing of the value
\* lands in the bits of the first byte in front of the element
ExcessClear ==
    UFits(ULowBits(last.value, IF array.width + StartBit > UINT_BIT
                               THEN UINT_BIT
                               ELSE array.width + StartBit),
          array.width)

(***************************************************************************)
(* C5 as amended: after a set of a value >= 2^width, get returns           *)
(* value mod 2^width; the other elements are unchanged exactly when bits   *)
(* width .. width + (index*width mod 8) - 1 of the value are zero, which   *)
(* is always so for an element that starts on a byte boundary.  Otherwise  *)
(* those bits are added into the bits of the first byte that precede the   *)
(* element.                                                                *)
(***************************************************************************)
C5_OversizedAmended ==
    Oversized
        => /\ libadt_bitwise_array_get(heap, array.width, last.index)
                = ULowBits(last.value, array.width)
           /\ OthersUnchanged <=> ExcessClear
           /\ StartBit = 0 => ExcessClear
           /\ ~ExcessClear =>
                /\ heap[StartByte] \div (2 ^ (CHAR_BIT - StartBit))
                      # last.before[StartByte] \div (2 ^ (CHAR_BIT - StartBit))
                /\ \A k \in DOMAIN heap : k < StartByte => heap[k] = last.before[k]

\* 0xffffffff set into element 1 of a 3-bit array: element 1 reads 7 and
\* element 0, which shares its byte, is changed
C5_Witness ==
    /\ Oversized /\ array.width = 3 /\ last.index = 1
    /\ last.value = <<65535, 65535>>
    /\ libadt_bitwise_array_get(heap, 3, 1) = <<0, 7>>
    /\ libadt_bitwise_array_get(heap, 3, 0) # libadt_bitwise_array_get(last.before, 3, 0)
    /\ ~ExcessClear

(***************************************************************************)
(* C6  alloc with a negative length or width returns, without calling      *)
(* malloc, the zero array (null buffer, length 0, width 0), which          *)
(* libadt_bitwise_array_valid rejects.                                     *)
(***************************************************************************)
C6_NegativeAlloc ==
    (last.op = "alloc" /\ (last.length < 0 \/ last.width < 0))
        => /\ malloc_log = <<>>
           /\ array = [length |-> 0, width |-> 0, bits |-> NULL]
           /\ ~libadt_bitwise_array_valid(array)
           /\ ~heap_live

\* alloc(3, -1)
C6_Witness ==
    /\ last.op = "alloc" /\ last.length = 3 /\ last.width = -1
    /\ ~libadt_bitwise_array_valid(array)
    /\ malloc_log = <<>>

(***************************************************************************)
(* C7  For length >= 0 and width >= 0, zero included, the array returned   *)
(* by alloc is valid if and only if malloc returned a block; a valid array *)
(* has its whole block.                                                    *)
(***************************************************************************)
C7_ValidIffAllocated ==
    (last.op = "alloc" /\ last.length >= 0 /\ last.width >= 0)
        => /\ Len(malloc_log) = 1
           /\ libadt_bitwise_array_valid(array) <=> heap_live
           /\ libadt_bitwise_array_valid(array)
                => /\ DOMAIN heap = 0 .. malloc_log[1] - 1
                   /\ array.length = last.length
                   /\ array.width = last.width
           /\ ~libadt_bitwise_array_valid(array) => heap = <<>>

\* alloc(0, 0) with a malloc that succeeds
C7_Witness ==
    /\ last.op = "alloc" /\ last.length = 0 /\ last.width = 0
    /\ heap_live
    /\ libadt_bitwise_array_valid(array)

(***************************************************************************)
(* C8  For length >= 0 and width >= 0 alloc asks malloc for exactly        *)
(* (length*width div 8) + 1 bytes, which is at least                       *)
(* ceil(length*width / 8) and at least 1.                                  *)
(***************************************************************************)
C8_AllocationSize ==
    (last.op = "alloc" /\ last.length >= 0 /\ last.width >= 0)
        => LET nbits == last.length * last.width
           IN  /\ malloc_log = <<(nbits \div 8) + 1>>
               /\ malloc_log[1] >= (nbits + 7) \div 8
               /\ malloc_log[1] >= 1

\* alloc(2, 8): 16 bits, 3 bytes requested where 2 would hold them
C8_Witness ==
    /\ last.op = "alloc" /\ last.length = 2 /\ last.width = 8
    /\ malloc_log = <<3>>

(***************************************************************************)
(* C9  Release then validity.  As claimed: after the release of a validly  *)
(* allocated array the validity check reports invalid.                     *)
(***************************************************************************)
C9_ReleasedIsInvalid ==
    last.op = "free" => ~libadt_bitwise_array_valid(array)

(***************************************************************************)
(* C9 as amended: libadt_bitwise_array_free returns nothing and cannot     *)
(* change the caller's array; after the release the array still holds the  *)
(* pointer to the released block and the validity check still reports      *)
(* valid.                                                                  *)
(***************************************************************************)
C9_ReleasedStillValid ==
    last.op = "free"
        => /\ ~heap_live
           /\ array.bits = BLOCK
           /\ libadt_bitwise_array_valid(array)

C9_Witness ==
    /\ last.op = "free" /\ ~heap_live
    /\ array.length = 3 /\ array.width = 15
    /\ libadt_bitwise_array_valid(array)

(***************************************************************************)
(* C10  Termination: the byte loops of get and set end with bits_remaining *)
(* exactly 0, never negative, after ceil((bit_offset + width) / 8)         *)
(* consecutive bytes, at most ceil(width / 8) + 1.                         *)
(***************************************************************************)
CeilBytes(nbits) == (nbits + CHAR_BIT - 1) \div CHAR_BIT

LoopDone == loop.op # "none" /\ loop.st.bits_remaining <= 0

C10_LoopTerminates ==
    loop.op # "none"
        => LET st == loop.st
               n == Len(st.visited)
               total == CeilBytes(loop.start + loop.width)
           IN  /\ st.bits_remaining >= 0
               /\ n <= total
               /\ (st.bits_remaining = 0) <=> (n = total)
               /\ total <= CeilBytes(loop.width) + 1
               /\ \A k \in 1 .. n :
                    /\ st.visited[k].location
                          = ((loop.index * loop.width) \div CHAR_BIT) + k - 1
                    /\ st.visited[k].bits >= 1
               /\ st.location = ((loop.index * loop.width) \div CHAR_BIT) + n

\* a 31-bit element starting 7 bits into its first byte: 5 bytes, one more
\* than ceil(31 / 8)
C10_Witness ==
    /\ LoopDone /\ loop.op = "set"
    /\ loop.width = 31 /\ loop.start = 7
    /\ loop.st.bits_remaining = 0
    /\ Len(loop.st.visited) = 5

(***************************************************************************)
(* C11  Fixed shape: after any sequence of get and set calls on an         *)
(* allocated array its length and width are the values given to alloc,     *)
(* and a get leaves every byte of the storage as it was.                   *)
(***************************************************************************)
C11_FixedShape ==
    /\ (last.op \in {"get", "set"})
          => /\ array.length = last.length
             /\ array.width = last.width
             /\ array.bits = BLOCK
             /\ DOMAIN heap = DOMAIN last.before
    /\ last.op = "get" => heap = last.before

\* a get of element 2 of alloc(3, 15), whose block holds garbage
C11_Witness ==
    /\ last.op = "get" /\ last.index = 2
    /\ last.length = 3 /\ last.width = 15
    /\ array.length = 3 /\ array.width = 15
    /\ heap = last.before /\ heap[0] # 0

(***************************************************************************)
(* Vocabulary of the vector's properties.                                  *)
(***************************************************************************)
Appended == vlast.op \in {"append_n", "append"}

\* the append had to enlarge the buffer
NeedsGrowth == vlast.number + vlast.old.length > vlast.old.capacity

\* the append failed: it had to enlarge the buffer and realloc returned null
AppendFailed == Appended /\ NeedsGrowth /\ vlast.how = "fail"

AppendSucceeded == Appended /\ ~AppendFailed

\* element j of the caller's array `data` of elements of `size` bytes
DataElement(data, size, j) == [k \in 0 .. size - 1 |-> data[j * size + k]]

(***************************************************************************)
(* C12  A successful libadt_vector_append_n(vector, data, number) returns  *)
(* a vector of length vector.length + number whose elements below          *)
(* vector.length are those of vector and whose later elements are          *)
(* data[0 .. number-1] in order, with or without a reallocation.           *)
(***************************************************************************)
C12_AppendN ==
    AppendSucceeded
        => /\ vector.length = vlast.old.length + vlast.number
           /\ vector.size = vlast.old.size
           /\ \A i \in 0 .. vlast.old.length - 1 :
                Element(blocks, vector, i) = Element(vlast.before, vlast.old, i)
           /\ \A j \in 0 .. vlast.number - 1 :
                Element(blocks, vector, vlast.old.length + j)
                    = DataElement(vlast.data, vector.size, j)

\* two 2-byte elements appended to a vector holding one, the buffer moved
C12_Witness ==
    /\ vlast.op = "append_n" /\ vlast.number = 2 /\ vlast.how = "move"
    /\ vlast.old.length = 1 /\ vlast.old.capacity = 1
    /\ vector.size = 2 /\ vector.length = 3
    /\ vector.buffer # vlast.old.buffer
    /\ Element(blocks, vector, 2) = DataElement(vlast.data, 2, 1)

C14_FailedAppendKeepsVector ==
    AppendFailed
        => /\ vector.buffer = vlast.old.buffer
           /\ vector.size = vlast.old.size
           /\ vector.length = vlast.old.length
           /\ vector.capacity = vlast.old.capacity
           /\ blocks = vlast.before

\* a failed append to a full vector of two elements
C14_Witness ==
    /\ AppendFailed /\ vlast.op = "append"
    /\ vlast.old.length = 2 /\ vlast.old.capacity = 2
    /\ vector = vlast.old
    /\ blocks[vector.buffer].live

(***************************************************************************)
(* C15  libadt_vector_trunc(vector, n): when realloc returns a block the   *)
(* result has capacity n, length min(vector.length, n), the same size and  *)
(* the same elements below that length; when realloc returns null the old  *)
(* vector is returned unchanged, its stored bytes included.  After a       *)
(* successful vacuum the capacity is the length and the length is          *)
(* unchanged.                                                              *)
(***************************************************************************)
C15_Trunc ==
    (vlast.op \in {"trunc", "vacuum"})
        => IF vlast.how \in {"inplace", "move"}
           THEN /\ vector.capacity = vlast.new_capacity
                /\ vector.length = MIN(vlast.old.length, vlast.new_capacity)
                /\ vector.size = vlast.old.size
                /\ \A i \in 0 .. vector.length - 1 :
                     Element(blocks, vector, i)
                         = Element(vlast.before, vlast.old, i)
                /\ vlast.op = "vacuum"
                     => /\ vector.capacity = vector.length
                        /\ vector.length = vlast.old.length
           ELSE /\ vector = vlast.old
                /\ blocks = vlast.before

(***************************************************************************)
(* C16  Append then pop: a pop on the result of a successful               *)
(* libadt_vector_append(v, x) writes x to out and returns a vector of      *)
(* length v.length; every pop leaves the buffer pointer, the size, the     *)
(* capacity and the stored bytes as they were.                             *)
(***************************************************************************)
C16_AppendPop ==
    vlast.op = "pop"
        => /\ vector.buffer = vlast.old.buffer
           /\ vector.size = vlast.old.size
           /\ vector.capacity = vlast.old.capacity
           /\ vector.length = vlast.old.length - 1
           /\ blocks = vlast.before
           /\ (vlast.prev.op = "append"
                    /\ ~libadt_vector_identity(vlast.prev.old, vlast.old))
                => /\ vlast.out = vlast.prev.data
                   /\ vector.length = vlast.prev.old.length

\* a 2-byte element appended to a vector holding one, the buffer moved,
\* and popped again
C16_Witness ==
    /\ vlast.op = "pop" /\ vlast.prev.op = "append"
    /\ vlast.prev.how = "move" /\ vlast.prev.old.length = 1
    /\ vector.size = 2 /\ vector.length = 1
    /\ vlast.out = Data(1, 2)
    /\ vlast.out # Element(blocks, vector, 0)

(***************************************************************************)
(* C17  LIBADT_VECTOR_WITH: when libadt_vector_init yields a vector that   *)
(* fails libadt_vector_valid the block never runs and the statement ends   *)
(* after the first test.  Otherwise the block runs once; left normally or  *)
(* with continue it is followed by one libadt_vector_free and one more     *)
(* test, which ends the statement with the vector zeroed and its block     *)
(* released; the block never runs a second time.  Every statement ends,    *)
(* or is left by break.                                                    *)
(***************************************************************************)
IsPrefix(t, full) == Len(t) <= Len(full) /\ t = SubSeq(full, 1, Len(t))

WithShape ==
    scope.pc # "none"
        => LET t == scope.trace
               skipped == <<"init", "test">>
               ran == <<"init", "test", "block", "free", "test">>
           IN  /\ Runs(t) <= 1
               /\ IF Len(t) >= 1 /\ ~libadt_vector_valid(scope.made)
                  THEN IsPrefix(t, skipped)
                  ELSE IsPrefix(t, ran)
               /\ scope.pc = "exit"
                    => /\ ~libadt_vector_valid(vector)
                       /\ t = IF libadt_vector_valid(scope.made)
                              THEN ran ELSE skipped
                       /\ libadt_vector_valid(scope.made)
                            => /\ scope.leave \in {"end", "continue"}
                               /\ vector = ZeroVector
                               /\ \A a \in Addrs : ~blocks[a].live
               /\ scope.pc = "left" => scope.leave = "break"

C17_WithRunsOnce ==
    /\ []WithShape
    /\ <>(scope.pc \in {"exit", "left"})
    /\ [](scope.leave \in {"end", "continue"} => <>(scope.pc = "exit"))

\* a statement whose block appended to the vector, moving its buffer, and
\* was left with continue: freed and ended
C17_Witness ==
    /\ scope.pc = "exit" /\ scope.leave = "continue"
    /\ scope.trace = <<"init", "test", "block", "free", "test">>
    /\ libadt_vector_valid(scope.made)
    /\ vlast.op = "free" /\ vlast.prev.op = "append_n" /\ vlast.prev.how = "move"
    /\ vector = ZeroVector

(***************************************************************************)
(* C18  Bounds checking by index: for an lptr of length L >= 1 and any     *)
(* signed index i, libadt_lptr_index(lptr, i) has its buffer advanced by   *)
(* i * size bytes, the same size and length L - i, and the bounds check of *)
(* the result is true exactly when the pointer is still inside the         *)
(* original buffer, 0 <= i < L.                                            *)
(***************************************************************************)
C18_IndexInBounds ==
    (lcall.op = "index" /\ lcall.base.length >= 1)
        => /\ lcall.result.buffer
                = lcall.base.buffer + lcall.index * lcall.base.size
           /\ lcall.result.size = lcall.base.size
           /\ lcall.result.length = lcall.base.length - lcall.index
           /\ lcall.in_bounds
                <=> (0 <= lcall.index /\ lcall.index < lcall.base.length)

(***************************************************************************)
(* C19  libadt_lptr_truncate(lptr, n) and libadt_const_lptr_truncate       *)
(* return lptr with its length reduced to n when n <= lptr.length and      *)
(* lptr unmodified when not; buffer and size never change.                 *)
(***************************************************************************)
C19_TruncateValidOnly ==
    lcall.op = "truncate"
        => /\ lcall.result.buffer = lcall.base.buffer
           /\ lcall.result.size = lcall.base.size
           /\ lcall.result.length = IF lcall.length <= lcall.base.length
                                    THEN lcall.length
                                    ELSE lcall.base.length

(***************************************************************************)
(* C20  libadt_lptr_after and libadt_const_lptr_after: for a base of       *)
(* element size s >= 1 and offset = truncate(index(base, i), n) with       *)
(* 0 <= i and i + n <= base.length, after(base, offset) points at the      *)
(* element of base just past offset: buffer base.buffer + (i + n) * s,     *)
(* size s, length base.length - (i + n).                                   *)
(***************************************************************************)
C20_AfterOffset ==
    lcall.op = "after"
        => LET past == lcall.index + lcall.length
           IN  /\ lcall.result.buffer
                    = lcall.base.buffer + past * lcall.base.size
               /\ lcall.result.size = lcall.base.size
               /\ lcall.result.length = lcall.base.length - past

(***************************************************************************)
(* C21  libadt_lptr_reallocarray(lptr, nmemb) returns; realloc is left     *)
(* uncalled exactly when lptr.size * nmemb exceeds SSIZE_MAX; when realloc *)
(* succeeds the result has length nmemb and the old size; when the product *)
(* exceeds SSIZE_MAX or realloc fails the lptr is returned unchanged, its  *)
(* block untouched, and is still allocated.                                *)
(***************************************************************************)
\* size * nmemb > SSIZE_MAX, for size >= 1
ExceedsSsize(size, nmemb) == nmemb > SSIZE_MAX \div size

C21_Reallocarray ==
    lcall.op = "reallocarray"
        => LET exceeds == ExceedsSsize(lcall.old.size, lcall.nmemb)
               succeeded == lcall.asked # <<>> /\ lcall.how \in {"inplace", "move"}
           IN  /\ ~lcall.trap
               /\ (lcall.asked = <<>>) <=> exceeds
               /\ ~exceeds => lcall.asked = <<lcall.old.size * lcall.nmemb>>
               /\ succeeded
                    => /\ lcall.lptr.length = lcall.nmemb
                       /\ lcall.lptr.size = lcall.old.size
                       /\ blocks[lcall.lptr.buffer].live
               /\ ~succeeded
                    => /\ lcall.lptr = lcall.old
                       /\ blocks = lcall.before
                       /\ libadt_lptr_allocated(lcall.lptr)

(***************************************************************************)
(* C22  libadt_lptr_memcpy(dest, src) and libadt_lptr_memmove(dest, src),  *)
(* for byte sizes that are representable, copy exactly the first           *)
(* min(size(dest), size(src)) bytes of src to the start of dest, leave     *)
(* every other byte as it was, and return dest with its buffer, size and   *)
(* length.                                                                 *)
(***************************************************************************)
C22_CopyPrefix ==
    (lcall.op \in {"memcpy", "memmove"})
        => LET n == MIN(lcall.dest.size * lcall.dest.length,
                        lcall.src.size * lcall.src.length)
           IN  /\ lcall.result = lcall.dest
               /\ lcall.syscall.n = ToUnsigned(n)
               /\ \A k \in 0 .. n - 1 :
                    lcall.mem[lcall.dest.buffer + k]
                        = lcall.before[lcall.src.buffer + k]
               /\ \A a \in DOMAIN lcall.mem :
                    a \notin lcall.dest.buffer .. lcall.dest.buffer + n - 1
                        => lcall.mem[a] = lcall.before[a]
               /\ DOMAIN lcall.mem = DOMAIN lcall.before

\* a memmove of three 1-byte members into an overlapping dest of two 2-byte
\* members one byte further on: three bytes copied, the fourth kept
C22_Witness ==
    /\ lcall.op = "memmove"
    /\ lcall.src = [buffer |-> 0, size |-> 1, length |-> 3]
    /\ lcall.dest = [buffer |-> 1, size |-> 2, length |-> 2]
    /\ lcall.mem[1] = 16 /\ lcall.mem[2] = 17 /\ lcall.mem[3] = 18
    /\ lcall.mem[4] = 20

\* size * length > most, by halving the length, with no product formed
RECURSIVE ProductExceeds(_, _, _)
ProductExceeds(size, length, most) ==
    IF length = 0
    THEN FALSE
    ELSE IF length % 2 = 1
         THEN IF size > most
              THEN TRUE
              ELSE ProductExceeds(size, length - 1, most - size)
         ELSE ProductExceeds(size, length \div 2, most \div 2)

(***************************************************************************)
(* C23  libadt_const_lptr_size(lptr), for size >= 1 and length >= 0,       *)
(* returns size * length when the product does not exceed SSIZE_MAX and    *)
(* -1 exactly when it does.                                                *)
(***************************************************************************)
C23_Size ==
    (lcall.op = "size" /\ lcall.lptr.size >= 1 /\ lcall.lptr.length >= 0)
        => IF ProductExceeds(lcall.lptr.size, lcall.lptr.length, SSIZE_MAX)
           THEN lcall.result = -1
           ELSE /\ lcall.result = lcall.lptr.size * lcall.lptr.length
                /\ lcall.result # -1

\* the largest representable product of 4-byte members, and the first
\* length past it
C23_Witness ==
    /\ lcall.op = "size"
    /\ lcall.lptr.size = 4
    /\ \/ lcall.lptr.length = 536870911 /\ lcall.result = 2147483644
       \/ lcall.lptr.length = 536870912 /\ lcall.result = -1

\* the bytes of an lptr inside the memory
Contents(mem, lptr) ==
    [k \in 0 .. lptr.size * lptr.length - 1 |-> mem[lptr.buffer + k]]

(***************************************************************************)
(* C24  libadt_const_lptr_equal(first, second) returns 1 exactly when the  *)
(* two have the same member size, the same length and the same bytes over  *)
(* size * length bytes, and 0 otherwise.                                   *)
(***************************************************************************)
C24_Equal ==
    lcall.op = "equal"
        => /\ lcall.result \in {0, 1}
           /\ lcall.result = 1
                <=> /\ lcall.first.size = lcall.second.size
                    /\ lcall.first.length = lcall.second.length
                    /\ Contents(lcall.mem, lcall.first)
                         = Contents(lcall.mem, lcall.second)

\* two different regions with the same two bytes are equal, and two that
\* differ in their second byte are not
C24_Witness ==
    /\ lcall.op = "equal"
    /\ lcall.first = [buffer |-> 0, size |-> 1, length |-> 2]
    /\ \/ lcall.second = [buffer |-> 4, size |-> 1, length |-> 2]
            /\ lcall.result = 1
       \/ lcall.second = [buffer |-> 1, size |-> 1, length |-> 2]
            /\ lcall.result = 0

(***************************************************************************)
(* C25  The per-byte step of get and set: in every iteration the number of *)
(* bits consumed (bits_read, bits_write) is                                *)
(* min(bits_remaining, 8 - bit_offset) and at least 1; the bit offset is   *)
(* the element's starting offset (index * width mod 8) in the first byte   *)
(* and 0 in every later byte; and set takes the slices of the value most   *)
(* significant remaining bits first.                                       *)
(***************************************************************************)
C25_ByteStep ==
    loop.op # "none"
        => \A k \in 1 .. Len(loop.st.visited) :
            LET v == loop.st.visited[k]
            IN  /\ v.bits = MIN(v.bits_remaining, CHAR_BIT - v.start_from)
                /\ v.bits >= 1
                /\ v.start_from
                     = IF k = 1 THEN (loop.index * loop.width) % CHAR_BIT ELSE 0
                /\ v.bits_remaining
                     = IF k = 1 THEN loop.width
                       ELSE loop.st.visited[k - 1].bits_remaining
                                - loop.st.visited[k - 1].bits
                /\ (loop.op = "set" /\ UFits(loop.value, loop.width))
                     => <<0, Digits(loop.st.bits,
                                    CHAR_BIT * v.location + v.start_from,
                                    v.bits)>>
                          = ULowBits(UShr(loop.value,
                                          v.bits_remaining - v.bits),
                                     v.bits)

\* a 31-bit element starting 7 bits into its first byte: 1 bit, then three
\* whole bytes, then 6 bits
C25_Witness ==
    /\ loop.op = "set" /\ loop.width = 31 /\ loop.start = 7
    /\ loop.value = <<32767, 65535>>
    /\ Len(loop.st.visited) = 5
    /\ loop.st.visited[1].bits = 1
    /\ loop.st.visited[2].bits = 8 /\ loop.st.visited[2].start_from = 0
    /\ loop.st.visited[5].bits = 6

(***************************************************************************)
(* C26  Bit-level frame of set: for every width in 1..32, valid index i    *)
(* and value < 2^width, set changes no storage bit outside the bit         *)
(* positions i * width .. (i + 1) * width - 1: the bytes before and after  *)
(* the element's bytes, the unused bits after the last element and the     *)
(* extra byte keep their contents.                                         *)
(***************************************************************************)
C26_SetFrame ==
    (last.op = "set" /\ ValidWidth /\ last.index \in Indices
        /\ UFits(last.value, array.width))
        => /\ DOMAIN heap = DOMAIN last.before
           /\ \A n \in 0 .. CHAR_BIT * Cardinality(DOMAIN heap) - 1 :
                n \notin last.index * array.width
                             .. (last.index + 1) * array.width - 1
                    => StorageBit(heap, n) = StorageBit(last.before, n)
           /\ \A b \in DOMAIN heap :
                (b < (last.index * array.width) \div CHAR_BIT
                    \/ b > ((last.index + 1) * array.width - 1) \div CHAR_BIT)
                    => heap[b] = last.before[b]

\* the last of three 13-bit elements is set to 0 in a block of ones: bits
\* 26..38 are cleared, bit 25 before them and the unused bit 39 stay 1
C26_Witness ==
    /\ last.op = "set" /\ array.length = 3 /\ array.width = 13
    /\ last.index = 2 /\ last.value = <<0, 0>>
    /\ Cardinality(DOMAIN heap) = 5
    /\ StorageBit(last.before, 26) = 1 /\ StorageBit(heap, 26) = 0
    /\ StorageBit(last.before, 38) = 1 /\ StorageBit(heap, 38) = 0
    /\ StorageBit(heap, 25) = 1
    /\ StorageBit(last.before, 39) = 1 /\ StorageBit(heap, 39) = 1

(***************************************************************************)
(* C29  Sets at distinct indices commute: for every width in 1..32, valid  *)
(* indices i # j and values a, b < 2^width, set(i, a) followed by          *)
(* set(j, b) leaves the storage byte for byte as set(j, b) followed by     *)
(* set(i, a) does; and set(i, a) done twice leaves what one set(i, a)      *)
(* leaves.                                                                 *)
(***************************************************************************)
C29_SetsCommute ==
    (last.op = "set" /\ nops = 2)
        => /\ last.index # last.first.index
                => heap = libadt_bitwise_array_set(
                              libadt_bitwise_array_set(
                                  last.first.before, array.width,
                                  last.index, last.value),
                              array.width, last.first.index, last.first.value)
           /\ (last.index = last.first.index /\ last.value = last.first.value)
                => heap = last.before

\* two 13-bit neighbours that share byte 1: element 0 set to 0 in a block of
\* ones, then element 1 set to 0x1555, which changes that byte again
C29_Witness ==
    /\ last.op = "set" /\ nops = 2 /\ array.width = 13
    /\ last.first.index = 0 /\ last.first.value = <<0, 0>>
    /\ last.first.before[1] = 255 /\ last.before[1] = 7
    /\ last.index = 1 /\ last.value = <<0, 5461>>
    /\ heap[1] = 5

\* the number of bytes of the block at ptr
BlockSize(mem, ptr) == Cardinality(DOMAIN mem[ptr].bytes)

(***************************************************************************)
(* C27  Growth policy of append_n: when number + length <= capacity no     *)
(* reallocation happens and the buffer pointer and the capacity are        *)
(* unchanged; otherwise the capacity requested is                          *)
(* max(2 * capacity, capacity + number), which is at least                 *)
(* length + number, so that after a successful append length <= capacity.  *)
(***************************************************************************)
C27_GrowthPolicy ==
    Appended
        => /\ ~NeedsGrowth
                => /\ vlast.how = "none"
                   /\ vector.buffer = vlast.old.buffer
                   /\ vector.capacity = vlast.old.capacity
                   /\ \A a \in Addrs :
                        /\ blocks[a].live = vlast.before[a].live
                        /\ DOMAIN blocks[a].bytes = DOMAIN vlast.before[a].bytes
           /\ NeedsGrowth => vlast.how \in {"fail", "inplace", "move"}
           /\ (NeedsGrowth /\ AppendSucceeded)
                => /\ vector.capacity
                        = MAX(2 * vlast.old.capacity,
                              vlast.old.capacity + vlast.number)
                   /\ vector.capacity >= vlast.old.length + vlast.number
                   /\ vector.capacity > vlast.old.capacity
                   /\ BlockSize(blocks, vector.buffer)
                        = vector.size * vector.capacity
           /\ AppendSucceeded
                => /\ vector.length = vlast.old.length + vlast.number
                   /\ vector.length <= vector.capacity

\* two elements appended to a full vector of capacity 1: capacity + number
\* = 3 is asked for, doubling would not be enough
C27_Witness ==
    /\ vlast.op = "append_n" /\ vlast.number = 2
    /\ vlast.old.capacity = 1 /\ vlast.old.length = 1
    /\ vlast.how = "move"
    /\ vector.capacity = 3 /\ vector.length = 3

\* the call made returns a vector to the caller's variable
Returned == vlast.op \in {"init", "append_n", "append", "trunc", "vacuum", "pop"}

\* libadt_vector_init could not allocate the initial capacity
InitFailed == vlast.op = "init" /\ vlast.new_capacity # 0 /\ vlast.how = "fail"

(***************************************************************************)
(* C28  Vector invariant: from init and after any sequence of append_n,    *)
(* append, trunc, vacuum and pop (pop with length >= 1 only), every        *)
(* realloc free to succeed or fail, every vector returned has              *)
(* length <= capacity, has the element size given to init, and has a null  *)
(* buffer only when its capacity is 0.  The size given to init is          *)
(* vlast.old.size after init and the size of the vector passed in after    *)
(* every other call.                                                       *)
(***************************************************************************)
C28_VectorInvariant ==
    Returned
        => /\ vector.length <= vector.capacity
           /\ vector.size = vlast.old.size
           /\ vector.buffer = NULL => vector.capacity = 0

(***************************************************************************)
(* C28 as amended: the same, except that an init that could not allocate   *)
(* returns the all-zero vector, whose size is 0 whatever size was given.   *)
(***************************************************************************)
C28_VectorInvariantOrZero ==
    Returned
        => /\ vector.length <= vector.capacity
           /\ vector.buffer = NULL => vector.capacity = 0
           /\ IF InitFailed
              THEN vector = ZeroVector
              ELSE vector.size = vlast.old.size

\* the third call in a row on a vector of 2-byte elements, a pop after an
\* append that had to grow the buffer
C28_Witness ==
    /\ vlast.op = "pop" /\ vlast.calls = 3
    /\ vlast.prev.op = "append" /\ vlast.prev.how = "move"
    /\ vector.size = 2 /\ vector.buffer # NULL
    /\ vector.length < vector.capacity

\* the activation at position k of the stack was called with the arguments
\* of the activation that called it
SameArguments(k) ==
    /\ lcall.stack[k].dest = lcall.stack[k - 1].dest
    /\ lcall.stack[k].src = lcall.stack[k - 1].src

\* the copy being made went through the overflow path
CopyOverflowed ==
    /\ lcall.op \in {"memcpy", "memmove"}
    /\ "stack" \in DOMAIN lcall
    /\ copy_frame(lcall.dest, lcall.src).overflow

(***************************************************************************)
(* C30  Overflow path of the lptr copy: when libadt_const_lptr_size        *)
(* reports -1 for dest or src, _libadt_lptr_memory_copy_op still           *)
(* terminates, no activation calling itself with the arguments it was      *)
(* given, and never passes the copy primitive a byte count larger than     *)
(* the bytes of the dest piece and of the src piece it is given.           *)
(***************************************************************************)
C30_CopyOverflow ==
    CopyOverflowed
        => /\ \A k \in 2 .. Len(lcall.stack) : ~SameArguments(k)
           /\ \A k \in 1 .. Len(lcall.log) : Fits(lcall.log[k])

====
